---- MODULE Spec2Model ----
(***************************************************************************)
(* Model of the model-invocation and prediction pipeline of the UI-TARS    *)
(* SDK (packages/ui-tars/sdk/src/Model.ts and its utils): the message      *)
(* formatter, the image budget, the Gemini alternation repair and the      *)
(* invocation engine with its Head Image Context.                          *)
(*                                                                         *)
(* A string is a sequence of characters.  One character of the model is    *)
(* either a whitespace character (" " or "\n"), an ordinary character, the *)
(* image placeholder token, or a whole literal of the source (a literal is *)
(* a run of non-whitespace text that holds no placeholder).                *)
(***************************************************************************)
EXTENDS Integers, Sequences, FiniteSets, TLC

\* ---------------------------------------------------------------- strings

IMAGE_PLACEHOLDER == "<image>"

WhiteSpace == {" ", "\n"}

RECURSIVE TrimStart(_)
TrimStart(s) ==
  IF s # <<>> /\ Head(s) \in WhiteSpace THEN TrimStart(Tail(s)) ELSE s

RECURSIVE TrimEnd(_)
TrimEnd(s) ==
  IF s # <<>> /\ s[Len(s)] \in WhiteSpace
  THEN TrimEnd(SubSeq(s, 1, Len(s) - 1))
  ELSE s

\* String.prototype.trim
Trim(s) == TrimEnd(TrimStart(s))

\* the backtick character
Backtick == "backtick"

\* the replace with the pattern of a backtick at the start or at the end, flag g
StripBackticks(url) ==
  LET a == IF url # <<>> /\ url[1] = Backtick THEN Tail(url) ELSE url
  IN IF a # <<>> /\ a[Len(a)] = Backtick THEN SubSeq(a, 1, Len(a) - 1) ELSE a

StartsWithNewline(s) == s # <<>> /\ s[1] = "\n"

EndsWithNewline(s) == s # <<>> /\ s[Len(s)] = "\n"

\* value.match(new RegExp(IMAGE_PLACEHOLDER, 'g')).length (0 when no match)
CountPlaceholders(s) == Cardinality({i \in 1..Len(s) : s[i] = IMAGE_PLACEHOLDER})

\* value.split(IMAGE_PLACEHOLDER)
RECURSIVE Split(_)
Split(s) ==
  IF CountPlaceholders(s) = 0 THEN <<s>>
  ELSE LET i == CHOOSE k \in 1..Len(s) :
                  /\ s[k] = IMAGE_PLACEHOLDER
                  /\ \A j \in 1..(k - 1) : s[j] # IMAGE_PLACEHOLDER
       IN <<SubSeq(s, 1, i - 1)>> \o Split(SubSeq(s, i + 1, Len(s)))

\* ------------------------------------------------- messages and their parts

NoImage == "none"

TextPart(t) == [type |-> "text", text |-> t, url |-> <<>>]

\* { type: 'image_url', image_url: { url: `data:image/png;base64,${image}` } }
ImagePart(image) ==
  [type |-> "image_url", text |-> <<>>, url |-> <<"data:image/png;base64,", image>>]

\* a message whose content is a bare string
StrMsg(role, t) == [role |-> role, isArray |-> FALSE, text |-> t, parts |-> <<>>]

\* a message whose content is an array of parts
ArrMsg(role, ps) == [role |-> role, isArray |-> TRUE, text |-> <<>>, parts |-> ps]

IsImagePart(p) == p.type = "image_url"

\* { type: 'input_image', image_url: url } of the Responses API
InputImagePart(url) == [type |-> "input_image", text |-> <<>>, url |-> url]

IsTextPart(p) == p.type = "text"

\* part.text && part.text.trim().length > 0
NonBlankText(p) == Trim(p.text) # <<>>

\* utils isMessageImage: a user message whose content array holds an image
isMessageImage(m) ==
  /\ m.role = "user"
  /\ m.isArray
  /\ \E i \in 1..Len(m.parts) :
       /\ m.parts[i].type \in {"image_url", "input_image"}
       /\ m.parts[i].url # <<>>

\* utils convertToResponseApiInput: image_url parts become input_image parts
convertToResponseApiInput(ms) ==
  [i \in 1..Len(ms) |->
     IF ms[i].isArray /\ Len(ms[i].parts) > 0
     THEN ArrMsg(ms[i].role,
                 [j \in 1..Len(ms[i].parts) |->
                    IF ms[i].parts[j].type = "image_url" /\ ms[i].parts[j].url # <<>>
                    THEN InputImagePart(ms[i].parts[j].url)
                    ELSE ms[i].parts[j]])
     ELSE ms[i]]

\* messages.findIndex(isMessageImage), 0-based, -1 when absent
HeadImageMessageIndex(ms) ==
  IF \E i \in 1..Len(ms) : isMessageImage(ms[i])
  THEN (CHOOSE i \in 1..Len(ms) :
          isMessageImage(ms[i]) /\ \A j \in 1..(i - 1) : ~isMessageImage(ms[j])) - 1
  ELSE -1

\* messages.findLastIndex((c) => c.role === 'assistant'), 0-based, -1 when absent
LastAssistantIndex(ms) ==
  IF \E i \in 1..Len(ms) : ms[i].role = "assistant"
  THEN (CHOOSE i \in 1..Len(ms) :
          ms[i].role = "assistant" /\ \A j \in (i + 1)..Len(ms) : ms[j].role # "assistant") - 1
  ELSE -1

\* --------------------------------------------------------- processVlmParams

RECURSIVE DropPlaceholderTurns(_, _)
DropPlaceholderTurns(conversations, imageCountToRemove) ==
  IF conversations = <<>> THEN <<>>
  ELSE IF imageCountToRemove > 0 /\ Head(conversations).value = <<IMAGE_PLACEHOLDER>>
       THEN DropPlaceholderTurns(Tail(conversations), imageCountToRemove - 1)
       ELSE <<Head(conversations)>> \o DropPlaceholderTurns(Tail(conversations), imageCountToRemove)

\* processVlmParams slicing from the wrong end: images.slice(0, maxImageLength)
KeepOldestImages(conversations, images, maxImageLength) ==
  IF Len(images) > maxImageLength
  THEN LET excessCount == Len(images) - maxImageLength
       IN [images |-> SubSeq(images, 1, maxImageLength),
           conversations |-> DropPlaceholderTurns(conversations, excessCount)]
  ELSE [images |-> images, conversations |-> conversations]

processVlmParams(conversations, images, maxImageLength) ==
  IF Len(images) > maxImageLength
  THEN LET excessCount == Len(images) - maxImageLength
       IN [images |-> SubSeq(images, excessCount + 1, Len(images)),
           conversations |-> DropPlaceholderTurns(conversations, excessCount)]
  ELSE [images |-> images, conversations |-> conversations]

\* -------------------------------------------------- convertToOpenAIMessages

StartingInteraction == <<"Starting interaction.">>

AnalyzingScreen == <<"Analyzing screen.">>

ImageOmitted == <<"[Image omitted]">>

ContinueText == <<"Continue.">>

AnalyzeThisScreen == <<"Analyze this screen and provide the next action.">>

\* total occurrences of the placeholder across all conversation values
RECURSIVE TotalPlaceholders(_)
TotalPlaceholders(conversations) ==
  IF conversations = <<>> THEN 0
  ELSE CountPlaceholders(Head(conversations).value) + TotalPlaceholders(Tail(conversations))

\* a single image handed to every placeholder
ImageForEveryPlaceholder(images, k, totalPlaceholders) ==
  IF Len(images) = 1 THEN images[1]
  ELSE (IF k \in 1..Len(images) THEN images[k] ELSE NoImage)

\* the image of the k-th placeholder (k counts from 1), NoImage for a stand-in
ImageToUse(images, k, totalPlaceholders) ==
  IF Len(images) = 1
  THEN (IF k = totalPlaceholders THEN images[1] ELSE NoImage)
  ELSE (IF k \in 1..Len(images) THEN images[k] ELSE NoImage)

\* parts.forEach of one turn, from part partIdx on (partIdx and index count from 0
\* as in the source); placeholderIndex is currentPlaceholderIndex before the part
RECURSIVE ContentParts(_, _, _, _, _, _)
ContentParts(parts, partIdx, index, placeholderIndex, totalPlaceholders, images) ==
  IF partIdx >= Len(parts) THEN <<>>
  ELSE LET part == parts[partIdx + 1]
           textPart == IF part # <<>> THEN <<TextPart(part)>> ELSE <<>>
           hasPlaceholder == partIdx < Len(parts) - 1
           imageToUse == ImageToUse(images, placeholderIndex + 1, totalPlaceholders)
           placeholderText == IF index = 0 /\ partIdx = 0 THEN AnalyzingScreen ELSE ImageOmitted
           imagePart == IF ~hasPlaceholder THEN <<>>
                        ELSE IF imageToUse # NoImage THEN <<ImagePart(imageToUse)>>
                        ELSE <<TextPart(placeholderText)>>
       IN textPart \o imagePart \o
          ContentParts(parts, partIdx + 1, index,
                       IF hasPlaceholder THEN placeholderIndex + 1 ELSE placeholderIndex,
                       totalPlaceholders, images)

\* the 'Continue.' default and the text put before a lone image
WithRequiredText(contentParts) ==
  IF contentParts = <<>> THEN <<TextPart(ContinueText)>>
  ELSE IF Len(contentParts) = 1 /\ IsImagePart(contentParts[1])
       THEN <<TextPart(AnalyzeThisScreen)>> \o contentParts
       ELSE contentParts

\* contentParts.filter: blank text parts are dropped
FilterContentParts(contentParts) ==
  SelectSeq(contentParts, LAMBDA p : IsTextPart(p) => NonBlankText(p))

\* the content of a message pushed for filteredContentParts
NewMessage(role, filteredContentParts) ==
  IF Len(filteredContentParts) = 1 /\ IsTextPart(filteredContentParts[1])
  THEN StrMsg(role, filteredContentParts[1].text)
  ELSE ArrMsg(role, filteredContentParts)

\* lastMessage after the parts of a same-role turn are merged into it
MergeIntoLast(lastMessage, filteredContentParts) ==
  IF lastMessage.isArray
  THEN ArrMsg(lastMessage.role, lastMessage.parts \o filteredContentParts)
  ELSE ArrMsg(lastMessage.role, <<TextPart(lastMessage.text)>> \o filteredContentParts)

\* conversations.forEach from turn index on (0-based), messages built so far
RECURSIVE ConvertTurns(_, _, _, _, _, _)
ConvertTurns(conversations, index, messages, placeholderIndex, totalPlaceholders, images) ==
  IF index >= Len(conversations) THEN messages
  ELSE LET conv == conversations[index + 1]
           role == IF conv.from = "human" THEN "user" ELSE "assistant"
           started == IF messages = <<>> /\ role = "assistant"
                      THEN <<StrMsg("user", StartingInteraction)>>
                      ELSE messages
           shouldMerge == started # <<>> /\ started[Len(started)].role = role
           parts == Split(conv.value)
           contentParts == ContentParts(parts, 0, index, placeholderIndex,
                                        totalPlaceholders, images)
           filteredContentParts == FilterContentParts(WithRequiredText(contentParts))
           next == IF shouldMerge
                   THEN [started EXCEPT ![Len(started)] =
                           MergeIntoLast(started[Len(started)], filteredContentParts)]
                   ELSE Append(started, NewMessage(role, filteredContentParts))
       IN ConvertTurns(conversations, index + 1, next,
                       placeholderIndex + CountPlaceholders(conv.value),
                       totalPlaceholders, images)

\* final cleanup of one content array: consecutive text parts become one
RECURSIVE MergeTextParts(_, _)
MergeTextParts(newContent, rest) ==
  IF rest = <<>> THEN newContent
  ELSE LET part == Head(rest)
           n == Len(newContent)
       IN IF n > 0 /\ IsTextPart(newContent[n]) /\ IsTextPart(part)
          THEN LET separator == IF EndsWithNewline(newContent[n].text)
                                   \/ StartsWithNewline(part.text)
                                THEN <<>> ELSE <<"\n">>
               IN MergeTextParts(
                    [newContent EXCEPT ![n] =
                       TextPart(newContent[n].text \o separator \o part.text)],
                    Tail(rest))
          ELSE MergeTextParts(Append(newContent, part), Tail(rest))

\* the message as the forEach over the turns left it, without the final cleanup
WithoutCleanup(msg) == msg

CleanupMessage(msg) ==
  IF msg.isArray
  THEN LET newContent == MergeTextParts(<<>>, msg.parts)
       IN IF Len(newContent) = 1 /\ IsTextPart(newContent[1])
          THEN StrMsg(msg.role, newContent[1].text)
          ELSE ArrMsg(msg.role, newContent)
  ELSE msg

\* one message per turn: no synthetic first message and no same-role merge
convertTurnByTurn(conversations, images) ==
  [i \in 1..Len(conversations) |->
     CleanupMessage(
       NewMessage(
         IF conversations[i].from = "human" THEN "user" ELSE "assistant",
         FilterContentParts(
           WithRequiredText(
             ContentParts(Split(conversations[i].value), 0, i - 1,
                          TotalPlaceholders(SubSeq(conversations, 1, i - 1)),
                          TotalPlaceholders(conversations), images)))))]

convertToOpenAIMessages(conversations, images) ==
  LET messages == ConvertTurns(conversations, 0, <<>>, 0,
                               TotalPlaceholders(conversations), images)
  IN [i \in 1..Len(messages) |-> CleanupMessage(messages[i])]

\* ------------------------------- invokeModelProvider: Gemini message repair

\* 0. 'system' becomes 'user'
SystemToUser(messages) ==
  [i \in 1..Len(messages) |->
     [messages[i] EXCEPT !.role = IF @ = "system" THEN "user" ELSE @]]

HasImagePart(ps) == \E i \in 1..Len(ps) : IsImagePart(ps[i])

\* msg.content.filter of step 1: an image part survives only while no image was found
RECURSIVE FilterImages(_, _)
FilterImages(ps, imageFound) ==
  IF ps = <<>> THEN <<>>
  ELSE IF IsImagePart(Head(ps))
       THEN (IF imageFound THEN <<>> ELSE <<Head(ps)>>) \o FilterImages(Tail(ps), TRUE)
       ELSE <<Head(ps)>> \o FilterImages(Tail(ps), imageFound)

\* 1. the loop from the last message down to the first (i counts from 1 here)
RECURSIVE OnlyMostRecentImage(_, _, _)
OnlyMostRecentImage(messages, i, imageFound) ==
  IF i = 0 THEN messages
  ELSE IF messages[i].isArray
       THEN OnlyMostRecentImage(
              [messages EXCEPT ![i] = ArrMsg(@.role, FilterImages(@.parts, imageFound))],
              i - 1, imageFound \/ HasImagePart(messages[i].parts))
       ELSE OnlyMostRecentImage(messages, i - 1, imageFound)

\* the deep clean of one part: blank text parts go, image parts stay
CleanPart(p) == IF IsTextPart(p) THEN NonBlankText(p) ELSE IsImagePart(p)

\* the cleaned message, or nothing when the loop continues past it
CleanMessage(msg) ==
  IF msg.isArray
  THEN LET cleanContent == SelectSeq(msg.parts, CleanPart)
       IN IF cleanContent = <<>> THEN <<>> ELSE <<ArrMsg(msg.role, cleanContent)>>
  ELSE IF Trim(msg.text) = <<>> THEN <<>> ELSE <<StrMsg(msg.role, Trim(msg.text))>>

\* Array.isArray(c) ? c : [{ type: 'text', text: String(c || '') }]
AsParts(msg) == IF msg.isArray THEN msg.parts ELSE <<TextPart(msg.text)>>

\* lastMsg.content = [...lastContent, ...newContent]
MergeContent(lastMsg, msg) == ArrMsg(lastMsg.role, AsParts(lastMsg) \o AsParts(msg))

\* 2. merge consecutive messages with the same role and deep clean
RECURSIVE MergeMessages(_, _)
MergeMessages(mergedMessages, rest) ==
  IF rest = <<>> THEN mergedMessages
  ELSE LET clean == CleanMessage(Head(rest))
           n == Len(mergedMessages)
       IN IF clean = <<>> THEN MergeMessages(mergedMessages, Tail(rest))
          ELSE IF n > 0 /\ mergedMessages[n].role = clean[1].role
               THEN MergeMessages(
                      [mergedMessages EXCEPT ![n] = MergeContent(@, clean[1])],
                      Tail(rest))
               ELSE MergeMessages(Append(mergedMessages, clean[1]), Tail(rest))

ContinueNudge == StrMsg("user", ContinueText)

AssistantAck == StrMsg("assistant", <<"I will help you with that.">>)

\* 3. strictly alternating roles
RECURSIVE AlternateMessages(_, _, _)
AlternateMessages(alternatingMessages, expectedRole, rest) ==
  IF rest = <<>> THEN alternatingMessages
  ELSE LET msg == Head(rest)
           n == Len(alternatingMessages)
       IN IF msg.role = expectedRole
          THEN AlternateMessages(Append(alternatingMessages, msg),
                                 IF expectedRole = "user" THEN "assistant" ELSE "user",
                                 Tail(rest))
          ELSE IF expectedRole = "user"
               THEN AlternateMessages(alternatingMessages \o <<ContinueNudge, msg>>,
                                      "user", Tail(rest))
               ELSE IF n > 0 /\ alternatingMessages[n].role = "user"
                    THEN AlternateMessages(
                           [alternatingMessages EXCEPT ![n] = MergeContent(@, msg)],
                           expectedRole, Tail(rest))
                    ELSE AlternateMessages(alternatingMessages \o <<AssistantAck, msg>>,
                                           "assistant", Tail(rest))

\* step 4 without its closing check: the list may end with an assistant message
StartWithUserOnly(effectiveMessages) ==
  IF effectiveMessages = <<>>
  THEN <<StrMsg("user", <<"Analyze the screen and provide the next action.">>)>>
  ELSE IF effectiveMessages[1].role # "user"
       THEN <<StrMsg("user", StartingInteraction)>> \o effectiveMessages
       ELSE effectiveMessages

\* step 4 appending its closing message whatever the last role is
AlwaysCloseWithUser(effectiveMessages) ==
  IF effectiveMessages = <<>>
  THEN <<StrMsg("user", <<"Analyze the screen and provide the next action.">>)>>
  ELSE LET started == IF effectiveMessages[1].role # "user"
                      THEN <<StrMsg("user", StartingInteraction)>> \o effectiveMessages
                      ELSE effectiveMessages
       IN Append(started, StrMsg("user", <<"Please provide the next action.">>))

\* 4. final check: starts with user and ends with user
StartAndEndWithUser(effectiveMessages) ==
  IF effectiveMessages = <<>>
  THEN <<StrMsg("user", <<"Analyze the screen and provide the next action.">>)>>
  ELSE LET started == IF effectiveMessages[1].role # "user"
                      THEN <<StrMsg("user", StartingInteraction)>> \o effectiveMessages
                      ELSE effectiveMessages
       IN IF started[Len(started)].role # "user"
          THEN Append(started, StrMsg("user", <<"Please provide the next action.">>))
          ELSE started

\* the whole Gemini branch: effectiveMessages for a message list
GeminiRepair(messages) ==
  LET converted == SystemToUser(messages)
      singleImage == OnlyMostRecentImage(converted, Len(converted), FALSE)
      mergedMessages == MergeMessages(<<>>, singleImage)
      alternatingMessages == AlternateMessages(<<>>, "user", mergedMessages)
  IN StartAndEndWithUser(alternatingMessages)

\* ------------------------------------------------------------------- state

VARIABLES
  conversations,     \* Message[]: the conversation handed to the formatter
  images,            \* string[]: the screenshots that go with it
  maxImageLength,    \* the configured maximum number of images
  trimmed,           \* the result of processVlmParams
  messages,          \* ChatCompletionMessageParam[]: the current message list
  firstRepair,       \* the message list after the first repair
  stage,             \* how far the formatter pipeline has come
  useResponsesApi,   \* modelConfig.useResponsesApi
  isGemini,          \* UITarsModel.isGemini, fixed by modelConfig
  apiKey,            \* modelConfig.apiKey is a non-empty string
  temperature,       \* modelConfig.temperature: <<>> when undefined, else <<value>>
  top_p,             \* modelConfig.top_p: <<>> when undefined, else <<value>>
  max_tokens,        \* modelConfig.max_tokens: <<>> when undefined, else <<value>>
  uiTarsVersion,     \* the UITarsModelVersion the caller passes
  originalModel,     \* modelConfig.model as configured: <<>> when undefined
  headImageContext,  \* UITarsModel.headImageContext
  session,           \* Conversation[]: the agent's conversation of this session
  turn,              \* the number of screenshots the agent has taken
  callerResponseId,  \* the responseId the agent chains into its next invoke
  pc,                \* idle, or the outbound call the invoke is waiting for
  call,              \* the locals of the running invokeModelProvider
  requests,          \* the outbound calls of the current invoke, in order
  result,            \* what invokeModelProvider returned
  outcome,           \* what the caller of the current invoke received
  nextId,            \* the next response identifier the upstream hands out
  deletions,         \* every identifier a deletion was requested for
  created,           \* every identifier the upstream returned, with its turn
  invokes,           \* the number of invokes begun
  resetSeen,         \* reset() was called
  repeated,          \* some turn of the session was invoked more than once
  invokesSinceReset, \* invokes begun since the last reset(), counted to 2
  logs,              \* the log entries of the current invoke that carry messages
  boxInput,          \* the arguments of parseBoxToScreenCoords
  boxOutput,         \* what parseBoxToScreenCoords returned
  probeInput,        \* the input of checkModelAvailability
  attempts,          \* the completions checkModelAvailability attempted, in order
  probeOutcome,      \* running, or how checkModelAvailability ended
  hasScreenRecordingPermission,  \* systemPermissions.ts, module state
  hasAccessibilityPermission,    \* systemPermissions.ts, module state
  permissionCall,    \* the last call of ensurePermissions: what it saw and returned
  urlCall            \* the call of normalizeGeminiOpenAIBaseUrl: argument and result

fmtVars == <<conversations, images, maxImageLength, trimmed, messages, firstRepair, stage>>

configVars ==
  <<useResponsesApi, isGemini, apiKey, temperature, top_p, max_tokens, uiTarsVersion,
    originalModel>>

engineVars ==
  <<headImageContext, session, turn, callerResponseId, pc, call, requests, result,
    outcome, nextId, deletions, created, invokes, resetSeen, repeated,
    invokesSinceReset, logs>>

appVars ==
  <<boxInput, boxOutput, probeInput, attempts, probeOutcome,
    hasScreenRecordingPermission, hasAccessibilityPermission, permissionCall,
    urlCall>>

vars == <<fmtVars, configVars, engineVars, appVars>>

\* ------------------------------------------------------------------ bounds

MaxConv == 3

MaxRaw == 2

MaxBudgetImages == 3

MaxTurns == 5

MaxInvokes == 6

MaxDirect == 3

MaxDirectCalls == 2

\* ------------------------------------------------------ the engine's values

\* previousResponseId / responseId undefined
NoId == 0

\* headImageContext = null
NoContext == [isNull |-> TRUE, messageIndex |-> -1, responseIds |-> <<>>]

NoCall ==
  [entry |-> "none", inputs |-> <<>>, cursor |-> 0, headImageMessageIndex |-> -1,
   responseId |-> NoId, previousResponseId |-> NoId]

NoResult == [returned |-> FALSE, prediction |-> <<>>, responseId |-> NoId]

NoOutcome ==
  [status |-> "none", error |-> "", prediction |-> <<>>, parsedPredictions |-> <<>>,
   responseId |-> NoId, parserCalled |-> FALSE, parserThrew |-> FALSE]

Screenshots == <<"A", "B", "C", "D", "E", "F", "G", "H">>

\* what the upstream answers as output_text / message content
OutputTexts == { <<>>, <<"Action: click">> }

NoBox == [boxStr |-> <<>>, screenWidth |-> 0, screenHeight |-> 0, factors |-> <<1, 1>>]

NoPoint == [returned |-> FALSE, isNull |-> TRUE, x |-> <<0, 1>>, y |-> <<0, 1>>]

NoProbe == [baseUrl |-> <<>>, modelName |-> <<>>]

NoPermissionCall ==
  [called |-> FALSE, calls |-> 0, isE2eTest |-> FALSE, consulted |-> FALSE,
   accessibilityStatus |-> "", screenStatus |-> "",
   screenCapture |-> FALSE, accessibility |-> FALSE]

NoUrlCall == [called |-> FALSE, baseUrl |-> <<>>, normalized |-> <<>>]

\* the main process before any probe, coordinate conversion or permission check
AppUnused ==
  /\ boxInput = NoBox
  /\ boxOutput = NoPoint
  /\ probeInput = NoProbe
  /\ attempts = <<>>
  /\ probeOutcome = "none"
  /\ hasScreenRecordingPermission = FALSE
  /\ hasAccessibilityPermission = FALSE
  /\ permissionCall = NoPermissionCall
  /\ urlCall = NoUrlCall

\* a configuration with an apiKey and no generation parameter
PlainConfig ==
  /\ apiKey = TRUE
  /\ temperature = <<>>
  /\ top_p = <<>>
  /\ max_tokens = <<>>
  /\ uiTarsVersion = "V1_0"
  /\ originalModel = <<"ui-tars">>

EngineInit ==
  /\ headImageContext = NoContext
  /\ callerResponseId = NoId
  /\ pc = "idle"
  /\ call = NoCall
  /\ requests = <<>>
  /\ result = NoResult
  /\ outcome = NoOutcome
  /\ nextId = 1
  /\ deletions = <<>>
  /\ created = <<>>
  /\ invokes = 0
  /\ resetSeen = FALSE
  /\ repeated = FALSE
  /\ invokesSinceReset = 0
  /\ logs = <<>>

\* ------------------------------------------------------- toVlmModelFormat

\* the system prompt with the (empty) history and the instruction marker
SystemPrompt ==
  <<"system prompt", "\n", "## History Messages", "\n", "\n", "\n",
    "## User Instruction", "\n">>

HasScreenshot(conv) ==
  conv.value = <<IMAGE_PLACEHOLDER>> /\ conv.screenshotBase64 # NoImage

toVlmModelFormat(convs) ==
  [conversations |->
     [i \in 1..Len(convs) |->
        [from |-> convs[i].from,
         value |-> IF i = 1 /\ convs[i].from = "human"
                   THEN SystemPrompt \o convs[i].value
                   ELSE convs[i].value]],
   images |->
     LET shots == SelectSeq(convs, HasScreenshot)
     IN [i \in 1..Len(shots) |-> shots[i].screenshotBase64]]

\* ------------------------------------------------------- the engine's steps

\* the credential headers of the OpenAI client: the apiKey given to the client is
\* sent as the bearer token of Authorization, defaultHeaders are sent as well
AuthHeaders ==
  {"Authorization"} \cup (IF isGemini /\ apiKey THEN {"x-goog-api-key"} ELSE {})

DefaultMaxTokensV15 == 65535

DefaultMaxTokens == 1000

GeminiMaxTokens == 8192

effectiveMaxTokens ==
  LET requested == IF max_tokens # <<>> THEN max_tokens[1]
                   ELSE IF uiTarsVersion = "V1_5" THEN DefaultMaxTokensV15
                        ELSE DefaultMaxTokens
  IN IF isGemini /\ requested > GeminiMaxTokens THEN GeminiMaxTokens ELSE requested

\* value ?? fallback
OrElse(value, fallback) == IF value = <<>> THEN <<fallback>> ELSE value

\* the model name of the request body: trimmed, one wrapping backtick pair
\* removed, trimmed again, and for Gemini a leading 'models/' removed once
NormalizedModel(configured, gemini) ==
  LET name == Trim(StripBackticks(Trim(IF configured = <<>> THEN <<"unknown">>
                                       ELSE configured)))
  IN IF gemini /\ name # <<>> /\ name[1] = "models/" THEN Tail(name) ELSE name

DeleteRequest(id) ==
  [kind |-> "delete", target |-> id, previous |-> NoId, input |-> <<>>,
   status |-> "pending", id |-> NoId,
   headers |-> AuthHeaders, temperature |-> <<>>, top_p |-> <<>>, max_tokens |-> <<>>,
   signal |-> FALSE, model |-> <<>>]

\* a create that leaves previous_response_id out
UnchainedCreateRequest(input, previous) ==
  [kind |-> "create", target |-> NoId, previous |-> NoId, input |-> <<input>>,
   status |-> "pending", id |-> NoId,
   headers |-> AuthHeaders, temperature |-> temperature, top_p |-> top_p,
   max_tokens |-> max_tokens, signal |-> TRUE,
   model |-> NormalizedModel(originalModel, isGemini)]

CreateRequest(input, previous) ==
  [kind |-> "create", target |-> NoId, previous |-> previous, input |-> <<input>>,
   status |-> "pending", id |-> NoId,
   headers |-> AuthHeaders, temperature |-> temperature, top_p |-> top_p,
   max_tokens |-> max_tokens, signal |-> TRUE,
   model |-> NormalizedModel(originalModel, isGemini)]

ChatRequest(effectiveMessages) ==
  [kind |-> "chat", target |-> NoId, previous |-> NoId, input |-> effectiveMessages,
   status |-> "pending", id |-> NoId,
   headers |-> AuthHeaders,
   temperature |-> IF isGemini THEN <<>> ELSE OrElse(temperature, "0"),
   top_p |-> IF isGemini THEN <<>> ELSE OrElse(top_p, "0.7"),
   max_tokens |-> IF effectiveMaxTokens > 0 THEN <<effectiveMaxTokens>> ELSE <<>>,
   signal |-> TRUE, model |-> NormalizedModel(originalModel, isGemini)]

\* the requests with the one in flight answered
Answered(reqs, status, id) ==
  [reqs EXCEPT ![Len(reqs)] = [@ EXCEPT !.status = status, !.id = id]]

\* invoke without its empty-prediction check: the parser receives the empty text
CompletedWithoutEmptyCheck(entry, prediction, responseId, parserThrows) ==
  IF entry = "provider"
  THEN [NoOutcome EXCEPT !.status = "returned", !.prediction = prediction,
                         !.responseId = responseId]
  ELSE [NoOutcome EXCEPT
          !.status = "returned", !.prediction = prediction,
          !.parsedPredictions = IF parserThrows THEN <<>> ELSE <<"action">>,
          !.responseId = responseId,
          !.parserCalled = TRUE, !.parserThrew = parserThrows]

\* invoke without the try/catch around the action parser: its error leaves invoke
CompletedParserRethrows(entry, prediction, responseId, parserThrows) ==
  IF entry = "provider"
  THEN [NoOutcome EXCEPT !.status = "returned", !.prediction = prediction,
                         !.responseId = responseId]
  ELSE IF prediction = <<>>
       THEN [NoOutcome EXCEPT !.status = "threw", !.error = "vlm response error"]
       ELSE IF parserThrows
            THEN [NoOutcome EXCEPT !.status = "threw", !.error = "parser",
                                   !.parserCalled = TRUE, !.parserThrew = TRUE]
            ELSE [NoOutcome EXCEPT
                    !.status = "returned", !.prediction = prediction,
                    !.parsedPredictions = <<"action">>,
                    !.responseId = responseId,
                    !.parserCalled = TRUE]

\* invoke after invokeModelProvider resolved: the empty-prediction check and the
\* action parser; a direct caller of invokeModelProvider receives its result
Completed(entry, prediction, responseId, parserThrows) ==
  IF entry = "provider"
  THEN [NoOutcome EXCEPT !.status = "returned", !.prediction = prediction,
                         !.responseId = responseId]
  ELSE IF prediction = <<>>
       THEN [NoOutcome EXCEPT !.status = "threw", !.error = "vlm response error"]
       ELSE [NoOutcome EXCEPT
               !.status = "returned", !.prediction = prediction,
               !.parsedPredictions = IF parserThrows THEN <<>> ELSE <<"action">>,
               !.responseId = responseId,
               !.parserCalled = TRUE, !.parserThrew = parserThrows]

\* the error of an outbound call, rethrown by invokeModelProvider and invoke
Thrown == [NoOutcome EXCEPT !.status = "threw", !.error = "transport"]

RECURSIVE PartUrls(_)
PartUrls(ps) ==
  IF ps = <<>> THEN <<>>
  ELSE (IF Head(ps).type \in {"image_url", "input_image"} THEN <<Head(ps).url>> ELSE <<>>)
       \o PartUrls(Tail(ps))

\* the data URLs embedded in a message list, in message and part order
RECURSIVE ImageUrls(_)
ImageUrls(ms) ==
  IF ms = <<>> THEN <<>>
  ELSE (IF Head(ms).isArray THEN PartUrls(Head(ms).parts) ELSE <<>>) \o ImageUrls(Tail(ms))

\* a log entry that carries a message list, as far as its embedded image strings
\* go: "slice50" is value.slice(0, 50) + '...[truncated]' of the JSON replacer,
\* "full" the string as JSON.stringify writes it without a replacer, "cut1000"
\* what substring(0, 1000) of the whole payload leaves of it
LogEntry(label, ms, shape) ==
  [label |-> label,
   images |-> [i \in 1..Len(ImageUrls(ms)) |-> [url |-> ImageUrls(ms)[i], shape |-> shape]]]

\* the log with the '[ResponseAPI] [input]' entry of the create ContinueLoop sends
InputLogged(base, c) ==
  IF c.cursor < Len(c.inputs)
  THEN Append(base, LogEntry("[ResponseAPI] [input]", <<c.inputs[c.cursor + 1]>>, "slice50"))
  ELSE base

\* the for loop over inputs, entered with the locals c and the requests so far:
\* the next create is sent, or the loop is over and the call returns
ContinueLoop(c, reqs, outputText, parserThrows) ==
  IF c.cursor < Len(c.inputs)
  THEN /\ requests' = Append(reqs, CreateRequest(c.inputs[c.cursor + 1], c.responseId))
       /\ pc' = "create"
       /\ call' = c
       /\ result' = NoResult
       /\ outcome' = NoOutcome
  ELSE /\ requests' = reqs
       /\ pc' = "idle"
       /\ call' = c
       /\ result' = [returned |-> TRUE, prediction |-> outputText, responseId |-> c.responseId]
       /\ outcome' = Completed(c.entry, outputText, c.responseId, parserThrows)

\* an eviction whenever an identifier is recorded, whatever the head image index
WindowSlidIgnoringIndex(context, headImageMessageIndex) ==
  /\ ~context.isNull
  /\ Len(context.responseIds) > 0

\* this.headImageContext?.responseIds.length && messageIndex !== headImageMessageIndex
WindowSlid(context, headImageMessageIndex) ==
  /\ ~context.isNull
  /\ Len(context.responseIds) > 0
  /\ context.messageIndex # headImageMessageIndex

\* an eviction that leaves the identifier in the list
EvictedKeepingHead(context) == context

\* this.headImageContext.responseIds.shift()
Evicted(context) == [context EXCEPT !.responseIds = Tail(@)]

\* invokeModelProvider up to its first outbound call
BeginProvider(entry, msgs, previousResponseId) ==
  /\ messages' = msgs
  /\ invokes' = invokes + 1
  /\ invokesSinceReset' = IF invokesSinceReset < 2 THEN invokesSinceReset + 1 ELSE 2
  /\ LET effectiveMessages == IF isGemini THEN GeminiRepair(msgs) ELSE msgs
         inputs == convertToResponseApiInput(
                     SubSeq(msgs, LastAssistantIndex(msgs) + 2, Len(msgs)))
         payload == IF entry = "invoke" /\ isGemini
                    THEN <<LogEntry("[UITarsModel] Gemini Payload", msgs, "full")>>
                    ELSE <<>>
         request == <<LogEntry("[UITarsModel] Request Payload", effectiveMessages,
                               "slice50")>>
     IN logs' =
          IF useResponsesApi
          THEN IF WindowSlid(headImageContext, HeadImageMessageIndex(msgs))
               THEN payload \o request
               ELSE InputLogged(payload \o request, [inputs |-> inputs, cursor |-> 0])
          ELSE IF isGemini
               THEN payload \o request \o
                    <<LogEntry("[UITarsModel] Gemini Request Payload", effectiveMessages,
                               "full")>>
               ELSE payload \o request
  /\ IF useResponsesApi
     THEN LET lastAssistantIndex == LastAssistantIndex(msgs)
              inputs == convertToResponseApiInput(
                          SubSeq(msgs, lastAssistantIndex + 2, Len(msgs)))
              c == [entry |-> entry, inputs |-> inputs, cursor |-> 0,
                    headImageMessageIndex |-> HeadImageMessageIndex(msgs),
                    responseId |-> previousResponseId,
                    previousResponseId |-> previousResponseId]
          IN IF WindowSlid(headImageContext, c.headImageMessageIndex)
             THEN /\ headImageContext' = Evicted(headImageContext)
                  /\ requests' = <<DeleteRequest(Head(headImageContext.responseIds))>>
                  /\ deletions' = Append(deletions, Head(headImageContext.responseIds))
                  /\ pc' = "delete"
                  /\ call' = c
                  /\ result' = NoResult
                  /\ outcome' = NoOutcome
             ELSE /\ \E parserThrows \in BOOLEAN : ContinueLoop(c, <<>>, <<>>, parserThrows)
                  /\ UNCHANGED <<headImageContext, deletions>>
     ELSE /\ requests' = <<ChatRequest(IF isGemini THEN GeminiRepair(msgs) ELSE msgs)>>
          /\ pc' = "chat"
          /\ call' = [NoCall EXCEPT !.entry = entry,
                                    !.previousResponseId = previousResponseId]
          /\ result' = NoResult
          /\ outcome' = NoOutcome
          /\ UNCHANGED <<headImageContext, deletions>>

\* images.slice(-1)
LastImage(imgs) == IF imgs = <<>> THEN <<>> ELSE <<imgs[Len(imgs)]>>

\* the agent calls UITarsModel.invoke with the conversation of its session
Invoke ==
  /\ pc = "idle"
  /\ invokes < MaxInvokes
  /\ LET fmt == toVlmModelFormat(session)
         vlmParams == processVlmParams(fmt.conversations, fmt.images, maxImageLength)
     IN /\ conversations' = vlmParams.conversations
        /\ images' = vlmParams.images
        /\ BeginProvider("invoke",
                         convertToOpenAIMessages(
                           vlmParams.conversations,
                           IF isGemini THEN LastImage(vlmParams.images)
                           ELSE vlmParams.images),
                         callerResponseId)
  /\ repeated' = (repeated \/ invokes >= turn)
  /\ UNCHANGED <<maxImageLength, trimmed, firstRepair, stage, configVars, appVars, session, turn,
                 callerResponseId, nextId, created, resetSeen>>

\* openai.responses.delete resolved
DeleteResponded ==
  /\ pc = "delete"
  /\ \E parserThrows \in BOOLEAN :
       ContinueLoop(call, Answered(requests, "ok", NoId), <<>>, parserThrows)
  /\ logs' = InputLogged(logs, call)
  /\ UNCHANGED <<fmtVars, configVars, appVars, headImageContext, session, turn, callerResponseId,
                 nextId, deletions, created, invokes, resetSeen, repeated, invokesSinceReset>>

\* a client with maxRetries: 1: the rejected call is sent once more
RejectedThenRetried ==
  /\ requests' =
       IF Len(requests) < 3
       THEN Append(Answered(requests, "failed", NoId), requests[Len(requests)])
       ELSE Answered(requests, "failed", NoId)
  /\ pc' = IF Len(requests) < 3 THEN pc ELSE "idle"
  /\ result' = NoResult
  /\ outcome' = IF Len(requests) < 3 THEN NoOutcome ELSE Thrown
  /\ UNCHANGED <<fmtVars, configVars, appVars, headImageContext, session, turn, callerResponseId,
                 call, nextId, deletions, created, invokes, resetSeen, repeated, invokesSinceReset, logs>>

\* an outbound call rejected: the error leaves invokeModelProvider and invoke
Rejected ==
  /\ requests' = Answered(requests, "failed", NoId)
  /\ logs' = IF pc = "chat" /\ isGemini
             THEN Append(logs, LogEntry("[UITarsModel] Gemini API Error",
                                        requests[Len(requests)].input, "cut1000"))
             ELSE logs
  /\ pc' = "idle"
  /\ result' = NoResult
  /\ outcome' = Thrown
  /\ UNCHANGED <<fmtVars, configVars, appVars, headImageContext, session, turn, callerResponseId,
                 call, nextId, deletions, created, invokes, resetSeen, repeated, invokesSinceReset>>

\* the error of the deletion caught and ignored: the loop over the inputs starts
DeleteFailureSwallowed ==
  /\ pc = "delete"
  /\ \E parserThrows \in BOOLEAN :
       ContinueLoop(call, Answered(requests, "failed", NoId), <<>>, parserThrows)
  /\ logs' = InputLogged(logs, call)
  /\ UNCHANGED <<fmtVars, configVars, appVars, headImageContext, session, turn, callerResponseId,
                 nextId, deletions, created, invokes, resetSeen, repeated, invokesSinceReset>>

DeleteFailed == pc = "delete" /\ Rejected

\* the context without the spread of the identifiers recorded before
HeadImageReplaced(context, headImageMessageIndex, responseId) ==
  [isNull |-> FALSE,
   messageIndex |-> headImageMessageIndex,
   responseIds |-> <<responseId>>]

\* the context after a create of an image input returned responseId
HeadImageAppended(context, headImageMessageIndex, responseId) ==
  [isNull |-> FALSE,
   messageIndex |-> headImageMessageIndex,
   responseIds |-> Append(context.responseIds, responseId)]

\* openai.responses.create resolved with a fresh identifier
CreateResponded ==
  /\ pc = "create"
  /\ \E outputText \in OutputTexts, parserThrows \in BOOLEAN :
       LET responseId == nextId
           input == call.inputs[call.cursor + 1]
       IN /\ headImageContext' =
               IF isMessageImage(input)
               THEN HeadImageAppended(headImageContext, call.headImageMessageIndex,
                                      responseId)
               ELSE headImageContext
          /\ created' = Append(created, [turn |-> turn, id |-> responseId])
          /\ ContinueLoop([call EXCEPT !.cursor = @ + 1, !.responseId = responseId],
                          Answered(requests, "ok", responseId), outputText, parserThrows)
  /\ nextId' = nextId + 1
  /\ logs' = InputLogged(logs, [call EXCEPT !.cursor = @ + 1])
  /\ UNCHANGED <<fmtVars, configVars, appVars, session, turn, callerResponseId, deletions,
                 invokes, resetSeen, repeated, invokesSinceReset>>

CreateFailed == pc = "create" /\ Rejected

\* openai.chat.completions.create resolved
ChatResponded ==
  /\ pc = "chat"
  /\ \E outputText \in OutputTexts, parserThrows \in BOOLEAN :
       /\ result' = [returned |-> TRUE, prediction |-> outputText, responseId |-> NoId]
       /\ outcome' = Completed(call.entry, outputText, NoId, parserThrows)
  /\ requests' = Answered(requests, "ok", NoId)
  /\ pc' = "idle"
  /\ UNCHANGED <<fmtVars, configVars, appVars, headImageContext, session, turn, callerResponseId,
                 call, nextId, deletions, created, invokes, resetSeen, repeated, invokesSinceReset, logs>>

ChatFailed == pc = "chat" /\ Rejected

\* a reset that leaves the Head Image Context as it is
ResetKeepsContext ==
  /\ pc = "idle"
  /\ headImageContext' = headImageContext
  /\ resetSeen' = TRUE
  /\ invokesSinceReset' = 0
  /\ UNCHANGED <<fmtVars, configVars, appVars, session, turn, callerResponseId, pc, call, requests,
                 result, outcome, nextId, deletions, created, invokes, repeated, logs>>

\* UITarsModel.reset
Reset ==
  /\ pc = "idle"
  /\ headImageContext' = NoContext
  /\ resetSeen' = TRUE
  /\ invokesSinceReset' = 0
  /\ UNCHANGED <<fmtVars, configVars, appVars, session, turn, callerResponseId, pc, call, requests,
                 result, outcome, nextId, deletions, created, invokes, repeated, logs>>

\* the agent loop: the prediction and the next screenshot join the conversation
AgentStep ==
  /\ pc = "idle"
  /\ outcome.status = "returned"
  /\ turn < MaxTurns
  /\ session' = session \o
       << [from |-> "gpt", value |-> outcome.prediction, screenshotBase64 |-> NoImage],
          [from |-> "human", value |-> <<IMAGE_PLACEHOLDER>>,
           screenshotBase64 |-> Screenshots[turn + 1]] >>
  /\ turn' = turn + 1
  /\ callerResponseId' = outcome.responseId
  /\ outcome' = NoOutcome
  /\ UNCHANGED <<fmtVars, configVars, appVars, headImageContext, pc, call, requests, result,
                 nextId, deletions, created, invokes, resetSeen, repeated, invokesSinceReset, logs>>

FormatterUnused ==
  /\ conversations = <<>>
  /\ images = <<>>
  /\ trimmed = [images |-> <<>>, conversations |-> <<>>]
  /\ messages = <<>>
  /\ firstRepair = <<>>
  /\ stage = "engine"

\* the agent's session: the instruction and the first screenshot are there
Init ==
  /\ AppUnused
  /\ FormatterUnused
  /\ maxImageLength \in 1..2
  /\ useResponsesApi \in BOOLEAN
  /\ isGemini \in BOOLEAN
  /\ PlainConfig
  /\ EngineInit
  /\ session = << [from |-> "human", value |-> <<"instruction">>,
                   screenshotBase64 |-> NoImage],
                  [from |-> "human", value |-> <<IMAGE_PLACEHOLDER>>,
                   screenshotBase64 |-> Screenshots[1]] >>
  /\ turn = 1

Next ==
  \/ Invoke
  \/ DeleteResponded
  \/ DeleteFailed
  \/ CreateResponded
  \/ CreateFailed
  \/ ChatResponded
  \/ ChatFailed
  \/ Reset
  \/ AgentStep

Spec == Init /\ [][Next]_vars

\* ------------------------------------------- the formatter's specification

\* the values a conversation turn takes in the formatter's specification
TurnValues ==
  { <<>>, <<" ">>, <<"a">>, <<"a", "\n">>,
    <<IMAGE_PLACEHOLDER>>, <<IMAGE_PLACEHOLDER, "a", IMAGE_PLACEHOLDER>>,
    <<IMAGE_PLACEHOLDER, IMAGE_PLACEHOLDER>>, <<IMAGE_PLACEHOLDER, " ">> }

Turns == [from : {"human", "gpt"}, value : TurnValues]

SeqsUpTo(S, n) == UNION {[1..k -> S] : k \in 0..n}

\* a message list as a caller of the repair may hand it over
RawContents ==
  { StrMsg("user", <<>>), StrMsg("user", <<" ">>), StrMsg("user", <<" ", "a">>),
    ArrMsg("user", <<>>), ArrMsg("user", <<TextPart(<<" ">>)>>),
    ArrMsg("user", <<TextPart(<<"a">>), ImagePart("A")>>),
    ArrMsg("user", <<ImagePart("A"), ImagePart("B")>>) }

RawMessages ==
  { [m EXCEPT !.role = r] : m \in RawContents, r \in {"user", "assistant", "system"} }

EngineUnused ==
  /\ useResponsesApi = FALSE
  /\ isGemini = TRUE
  /\ PlainConfig
  /\ EngineInit
  /\ session = <<>>
  /\ turn = 0

InitFormat ==
  /\ AppUnused
  /\ EngineUnused
  /\ maxImageLength = 0
  /\ trimmed = [images |-> <<>>, conversations |-> <<>>]
  /\ firstRepair = <<>>
  /\ \/ /\ stage = "conversation"
        /\ conversations \in SeqsUpTo(Turns, MaxConv)
        /\ \E n \in 0..2 : images = SubSeq(Screenshots, 1, n)
        /\ messages = <<>>
     \/ /\ stage = "raw"
        /\ conversations = <<>>
        /\ images = <<>>
        /\ messages \in SeqsUpTo(RawMessages, MaxRaw)

\* UITarsModel.invoke: the conversation becomes the message list
Format ==
  /\ stage = "conversation"
  /\ \E gemini \in BOOLEAN :
       messages' = convertToOpenAIMessages(
                     conversations, IF gemini THEN LastImage(images) ELSE images)
  /\ stage' = "formatted"
  /\ UNCHANGED <<conversations, images, maxImageLength, trimmed, firstRepair,
                 configVars, appVars, engineVars>>

\* invokeModelProvider, Gemini branch: the message list is repaired
Repair ==
  /\ stage \in {"formatted", "raw"}
  /\ messages' = GeminiRepair(messages)
  /\ firstRepair' = messages'
  /\ stage' = IF stage = "formatted" THEN "repaired" ELSE "rawRepaired"
  /\ UNCHANGED <<conversations, images, maxImageLength, trimmed, configVars, appVars, engineVars>>

\* the repaired list is handed to the repair once more
RepairAgain ==
  /\ stage \in {"repaired", "rawRepaired"}
  /\ messages' = GeminiRepair(messages)
  /\ stage' = IF stage = "repaired" THEN "repairedTwice" ELSE "rawRepairedTwice"
  /\ UNCHANGED <<conversations, images, maxImageLength, trimmed, firstRepair,
                 configVars, appVars, engineVars>>

NextFormat == Format \/ Repair \/ RepairAgain

SpecFormat == InitFormat /\ [][NextFormat]_vars

\* ------------------------------------------ the image budget's specification

BudgetTurns ==
  [from : {"human", "gpt"},
   value : { <<"a">>, <<IMAGE_PLACEHOLDER>>, <<"a", IMAGE_PLACEHOLDER>> }]

InitBudget ==
  /\ AppUnused
  /\ EngineUnused
  /\ stage = "conversation"
  /\ conversations \in SeqsUpTo(BudgetTurns, MaxConv + 1)
  /\ \E n \in 0..MaxBudgetImages : images = SubSeq(Screenshots, 1, n)
  /\ maxImageLength \in 0..MaxBudgetImages
  /\ trimmed = [images |-> <<>>, conversations |-> <<>>]
  /\ messages = <<>>
  /\ firstRepair = <<>>

Budget ==
  /\ stage = "conversation"
  /\ trimmed' = processVlmParams(conversations, images, maxImageLength)
  /\ stage' = "trimmed"
  /\ UNCHANGED <<conversations, images, maxImageLength, messages, firstRepair,
                 configVars, appVars, engineVars>>

NextBudget == Budget

SpecBudget == InitBudget /\ [][NextBudget]_vars

\* ------------------------------ direct calls of invokeModelProvider

\* the messages a subclass hands to invokeModelProvider
DirectMessages ==
  { StrMsg("user", <<"a">>),
    ArrMsg("user", <<TextPart(<<"a">>), ImagePart("A")>>),
    StrMsg("assistant", <<"b">>) }

InitProvider ==
  /\ AppUnused
  /\ FormatterUnused
  /\ maxImageLength = 1
  /\ useResponsesApi \in BOOLEAN
  /\ isGemini \in BOOLEAN
  /\ PlainConfig
  /\ EngineInit
  /\ session = <<>>
  /\ turn = 0

\* invokeModelProvider called with a message list and a previousResponseId
InvokeModelProvider ==
  /\ pc = "idle"
  /\ invokes < MaxDirectCalls
  /\ \E msgs \in SeqsUpTo(DirectMessages, MaxDirect),
        previousResponseId \in {NoId, result.responseId} :
       BeginProvider("provider", msgs, previousResponseId)
  /\ UNCHANGED <<conversations, images, maxImageLength, trimmed, firstRepair, stage,
                 configVars, appVars, session, turn, callerResponseId, nextId, created, resetSeen, repeated>>

NextProvider ==
  \/ InvokeModelProvider
  \/ DeleteResponded
  \/ DeleteFailed
  \/ CreateResponded
  \/ CreateFailed
  \/ ChatResponded
  \/ ChatFailed
  \/ Reset

SpecProvider == InitProvider /\ [][NextProvider]_vars

\* ------------------------------ the requests under every configuration

MaxConfigCalls == 2

\* message lists whose first image message is at index 0 and at index 1, and one
\* with a system message and a message of two images
ConfiguredMessages ==
  { <<ArrMsg("user", <<TextPart(<<"a">>), ImagePart("A")>>)>>,
    <<StrMsg("user", <<"a">>), ArrMsg("user", <<TextPart(<<"a">>), ImagePart("B")>>)>>,
    <<StrMsg("system", <<"s">>),
      ArrMsg("user", <<TextPart(<<"a">>), ImagePart("C"), ImagePart("D")>>)>> }

InitRequest ==
  /\ FormatterUnused
  /\ maxImageLength = 1
  /\ useResponsesApi \in BOOLEAN
  /\ isGemini \in BOOLEAN
  /\ apiKey \in BOOLEAN
  /\ temperature \in {<<>>, <<"0.2">>}
  /\ top_p \in {<<>>, <<"0.9">>}
  /\ max_tokens \in {<<>>, <<0>>, <<500>>, <<9000>>, <<70000>>}
  /\ uiTarsVersion \in {"V1_0", "V1_5"}
  /\ originalModel = <<"ui-tars">>
  /\ AppUnused
  /\ EngineInit
  /\ session = <<>>
  /\ turn = 0

\* invokeModelProvider called under the configuration
InvokeConfigured ==
  /\ pc = "idle"
  /\ invokes < MaxConfigCalls
  /\ \E msgs \in ConfiguredMessages : BeginProvider("provider", msgs, result.responseId)
  /\ UNCHANGED <<conversations, images, maxImageLength, trimmed, firstRepair, stage,
                 configVars, appVars, session, turn, callerResponseId, nextId, created, resetSeen, repeated>>

NextRequest ==
  \/ InvokeConfigured
  \/ DeleteResponded
  \/ DeleteFailed
  \/ CreateResponded
  \/ CreateFailed
  \/ ChatResponded
  \/ ChatFailed

SpecRequest == InitRequest /\ [][NextRequest]_vars

\* ------------------------------ the requests for every configured model name

\* what a user may have pasted as the model identifier
ConfiguredModels ==
  { <<>>, <<"gemini-2.0-flash">>, <<"models/", "gemini-2.0-flash">>,
    <<" ", "gemini-2.0-flash", "\n">>,
    <<Backtick, "gemini-2.0-flash", Backtick>>,
    <<" ", Backtick, "models/", "gemini-2.0-flash", Backtick, " ">>,
    <<Backtick, " ", "gemini-2.0-flash", " ", Backtick>>,
    <<Backtick, Backtick, "gemini-2.0-flash", Backtick, Backtick>>,
    <<"models/", "models/", "gemini-2.0-flash">>,
    <<"models/", " ", "gemini-2.0-flash">> }

InitModelName ==
  /\ FormatterUnused
  /\ maxImageLength = 1
  /\ useResponsesApi \in BOOLEAN
  /\ isGemini \in BOOLEAN
  /\ apiKey = TRUE
  /\ temperature = <<>>
  /\ top_p = <<>>
  /\ max_tokens = <<>>
  /\ uiTarsVersion = "V1_0"
  /\ originalModel \in ConfiguredModels
  /\ AppUnused
  /\ EngineInit
  /\ session = <<>>
  /\ turn = 0

SpecModelName == InitModelName /\ [][NextRequest]_vars

\* ---------------------------------- the main process's other operations

\* the engine, the formatter and the other routes take no part
ModelUnused ==
  /\ FormatterUnused
  /\ maxImageLength = 0
  /\ EngineUnused

\* ------------------------------------------- parseBoxToScreenCoords

\* a box string is a sequence of characters; a numeric literal is one character
\* that carries its value, the fraction <<numerator, denominator>>
Char(c) == [ch |-> c, value |-> <<0, 1>>]

Num(n, d) == [ch |-> "num", value |-> <<n, d>>]

NaN == <<0, 0>>

IsNaN(q) == q[2] = 0

\* str.replace(c, ''): the first occurrence of c is removed
RemoveFirst(str, c) ==
  IF \E i \in 1..Len(str) : str[i].ch = c
  THEN LET i == CHOOSE k \in 1..Len(str) :
                  str[k].ch = c /\ \A j \in 1..(k - 1) : str[j].ch # c
       IN SubSeq(str, 1, i - 1) \o SubSeq(str, i + 1, Len(str))
  ELSE str

\* str.split(',')
RECURSIVE SplitOnComma(_, _)
SplitOnComma(str, piece) ==
  IF str = <<>> THEN <<piece>>
  ELSE IF Head(str).ch = ","
       THEN <<piece>> \o SplitOnComma(Tail(str), <<>>)
       ELSE SplitOnComma(Tail(str), Append(piece, Head(str)))

RECURSIVE SkipSpaces(_)
SkipSpaces(str) ==
  IF str # <<>> /\ Head(str).ch = " " THEN SkipSpaces(Tail(str)) ELSE str

\* parseFloat(num.trim()): the literal the piece begins with, else NaN
ParseFloat(piece) ==
  LET text == SkipSpaces(piece)
  IN IF text # <<>> /\ Head(text).ch = "num" THEN Head(text).value ELSE NaN

\* Math.round(((a + b) / 2) * screen * factor) / factor, as the fraction
\* <<rounded, factor>>; Math.round is floor(v + 1/2)
ScaledMidpoint(a, b, screen, factor) ==
  IF IsNaN(a) \/ IsNaN(b) THEN NaN
  ELSE LET numerator == (a[1] * b[2] + b[1] * a[2]) * screen * factor
           denominator == 2 * a[2] * b[2]
       IN <<(2 * numerator + denominator) \div (2 * denominator), factor>>

\* parseBoxToScreenCoords taking the first point for the midpoint
parseBoxFirstPoint(boxStr, screenWidth, screenHeight, factors) ==
  IF boxStr = <<>>
  THEN [returned |-> TRUE, isNull |-> TRUE, x |-> <<0, 1>>, y |-> <<0, 1>>]
  ELSE LET pieces == SplitOnComma(RemoveFirst(RemoveFirst(boxStr, "["), "]"), <<>>)
           coords == [i \in 1..Len(pieces) |-> ParseFloat(pieces[i])]
           x1 == coords[1]
           y1 == IF Len(coords) >= 2 THEN coords[2] ELSE NaN
       IN [returned |-> TRUE, isNull |-> FALSE,
           x |-> ScaledMidpoint(x1, x1, screenWidth, factors[1]),
           y |-> ScaledMidpoint(y1, y1, screenHeight, factors[2])]

parseBoxToScreenCoords(boxStr, screenWidth, screenHeight, factors) ==
  IF boxStr = <<>>
  THEN [returned |-> TRUE, isNull |-> TRUE, x |-> <<0, 1>>, y |-> <<0, 1>>]
  ELSE LET pieces == SplitOnComma(RemoveFirst(RemoveFirst(boxStr, "["), "]"), <<>>)
           coords == [i \in 1..Len(pieces) |-> ParseFloat(pieces[i])]
           x1 == coords[1]
           y1 == IF Len(coords) >= 2 THEN coords[2] ELSE NaN
           x2 == IF Len(coords) >= 3 THEN coords[3] ELSE x1
           y2 == IF Len(coords) >= 4 THEN coords[4] ELSE y1
       IN [returned |-> TRUE, isNull |-> FALSE,
           x |-> ScaledMidpoint(x1, x2, screenWidth, factors[1]),
           y |-> ScaledMidpoint(y1, y2, screenHeight, factors[2])]

\* 0, 0.1, 0.0625, 0.25 and, out of range, 1.5
XValues == { <<0, 1>>, <<1, 10>>, <<1, 16>>, <<1, 4>>, <<3, 2>> }

\* 0.1, 0.25 and, out of range, -0.1
YValues == { <<1, 10>>, <<1, 4>>, <<-1, 10>> }

Fraction(q) == Num(q[1], q[2])

BoxStrings ==
  {<<>>}
  \cup { <<Char("["), Fraction(x1), Char(","), Fraction(y1), Char(","),
           Fraction(x2), Char(","), Fraction(y2), Char("]")>> :
           x1 \in XValues, y1 \in YValues, x2 \in XValues, y2 \in YValues }
  \cup { <<Char("["), Fraction(x), Char(","), Char(" "), Fraction(y), Char("]")>> :
           x \in XValues, y \in YValues }

BoxInputs ==
  { [boxStr |-> b, screenWidth |-> scr[1], screenHeight |-> scr[2], factors |-> f] :
      b \in BoxStrings, scr \in {<<1000, 800>>, <<256, 144>>},
      f \in {<<1, 1>>, <<100, 100>>} }

InitBox ==
  /\ ModelUnused
  /\ boxInput \in BoxInputs
  /\ boxOutput = NoPoint
  /\ probeInput = NoProbe
  /\ attempts = <<>>
  /\ probeOutcome = "none"
  /\ hasScreenRecordingPermission = FALSE
  /\ hasAccessibilityPermission = FALSE
  /\ permissionCall = NoPermissionCall
  /\ urlCall = NoUrlCall

ParseBox ==
  /\ ~boxOutput.returned
  /\ boxOutput' = parseBoxToScreenCoords(boxInput.boxStr, boxInput.screenWidth,
                                         boxInput.screenHeight, boxInput.factors)
  /\ UNCHANGED <<fmtVars, configVars, engineVars, boxInput, probeInput, attempts,
                 probeOutcome, hasScreenRecordingPermission, hasAccessibilityPermission,
                 permissionCall, urlCall>>

NextBox == ParseBox

SpecBox == InitBox /\ [][NextBox]_vars

\* ------------------------------------------- checkModelAvailability

\* a URL is its host followed by its path segments, a model name its optional
\* 'models/' prefix followed by the name

Includes(url, segment) == \E i \in 1..Len(url) : url[i] = segment

\* url.replace(segment, replacement): the first occurrence
ReplaceFirst(url, segment, replacement) ==
  IF Includes(url, segment)
  THEN LET i == CHOOSE k \in 1..Len(url) :
                  url[k] = segment /\ \A j \in 1..(k - 1) : url[j] # segment
       IN [url EXCEPT ![i] = replacement]
  ELSE url

isGeminiBaseUrl(baseUrl) ==
  \/ Includes(baseUrl, "generativelanguage.googleapis.com")
  \/ Includes(baseUrl, "ai.google.dev")

\* the first character of the token is a slash
SlashFirst(token) == token \in {"/", "/v1", "/v1beta", "/openai"}

\* url.includes(version + '/'): the version segment is followed by a slash
IncludesVersion(url, version) ==
  \E i \in 1..(Len(url) - 1) : url[i] = version /\ SlashFirst(url[i + 1])

\* url.replace('/v1/', '/v1beta/')
ForceV1beta(url) ==
  LET i == CHOOSE k \in 1..(Len(url) - 1) :
             /\ url[k] = "/v1" /\ SlashFirst(url[k + 1])
             /\ \A j \in 1..(k - 1) : ~(url[j] = "/v1" /\ SlashFirst(url[j + 1]))
  IN [url EXCEPT ![i] = "/v1beta"]

\* url.replace('/openai', '/v1beta/openai')
InjectV1beta(url) ==
  LET i == CHOOSE k \in 1..Len(url) :
             url[k] = "/openai" /\ \A j \in 1..(k - 1) : url[j] # "/openai"
  IN SubSeq(url, 1, i - 1) \o <<"/v1beta", "/openai">> \o SubSeq(url, i + 1, Len(url))

\* url.endsWith('/openai') || url.endsWith('/openai/')
EndsWithOpenai(url) ==
  \/ url # <<>> /\ url[Len(url)] = "/openai"
  \/ Len(url) >= 2 /\ url[Len(url)] = "/" /\ url[Len(url) - 1] = "/openai"

\* url.endsWith('/')
EndsWithSlash(url) == url # <<>> /\ url[Len(url)] \in {"/", "https://"}

DefaultEndpoint ==
  <<"https://", "generativelanguage.googleapis.com", "/v1beta", "/openai", "/">>

normalizeGeminiOpenAIBaseUrl(baseUrl) ==
  LET normalized == Trim(StripBackticks(Trim(baseUrl)))
  IN IF Includes(normalized, "ai.google.dev")
     THEN DefaultEndpoint
     ELSE LET versioned ==
                IF Includes(normalized, "generativelanguage.googleapis.com")
                THEN IF IncludesVersion(normalized, "/v1")
                     THEN ForceV1beta(normalized)
                     ELSE IF ~IncludesVersion(normalized, "/v1beta")
                             /\ EndsWithOpenai(normalized)
                          THEN InjectV1beta(normalized)
                          ELSE normalized
                ELSE normalized
          IN IF EndsWithSlash(versioned) THEN versioned ELSE versioned \o <<"/">>

versions == <<"/v1beta", "/v1">>

prefixes == <<<<>>, <<"models/">>>>

\* the custom header only, or none: the client sends its apiKey as bearer token
headerConfigs == <<{"x-goog-api-key"}, {}>>

\* baseURL with its version path replaced by version
VersionedBaseURL(baseURL, version) ==
  IF Includes(baseURL, "/v1beta") THEN ReplaceFirst(baseURL, "/v1beta", version)
  ELSE IF Includes(baseURL, "/v1") THEN ReplaceFirst(baseURL, "/v1", version)
       ELSE baseURL

\* modelName with its 'models/' prefix replaced by prefix, or prefix put before it
TestModel(modelName, prefix) ==
  IF modelName # <<>> /\ modelName[1] = "models/"
  THEN prefix \o Tail(modelName)
  ELSE prefix \o modelName

Attempt(version, headers, prefix, url, model) ==
  [version |-> version, headers |-> headers \cup {"Authorization"}, prefix |-> prefix,
   baseURL |-> url, model |-> model, status |-> "pending"]

\* the loops without the outer one: only the first version path is probed
NextAttemptFirstVersionOnly(input, done) ==
  IF isGeminiBaseUrl(input.baseUrl)
  THEN IF done < Len(headerConfigs) * Len(prefixes)
       THEN LET v == versions[1]
                h == headerConfigs[((done \div Len(prefixes)) % Len(headerConfigs)) + 1]
                p == prefixes[(done % Len(prefixes)) + 1]
            IN <<Attempt(v, h, p,
                         VersionedBaseURL(normalizeGeminiOpenAIBaseUrl(input.baseUrl), v),
                         TestModel(input.modelName, p))>>
       ELSE <<>>
  ELSE IF done = 0
       THEN <<Attempt("", {}, <<>>, input.baseUrl, input.modelName)>>
       ELSE <<>>

\* the next completion tryCompletion is called for after done attempts, <<>> when
\* the loops are over
NextAttempt(input, done) ==
  IF isGeminiBaseUrl(input.baseUrl)
  THEN IF done < Len(versions) * Len(headerConfigs) * Len(prefixes)
       THEN LET v == versions[(done \div (Len(headerConfigs) * Len(prefixes))) + 1]
                h == headerConfigs[((done \div Len(prefixes)) % Len(headerConfigs)) + 1]
                p == prefixes[(done % Len(prefixes)) + 1]
            IN <<Attempt(v, h, p,
                         VersionedBaseURL(normalizeGeminiOpenAIBaseUrl(input.baseUrl), v),
                         TestModel(input.modelName, p))>>
       ELSE <<>>
  ELSE IF done = 0
       THEN <<Attempt("", {}, <<>>, input.baseUrl, input.modelName)>>
       ELSE <<>>

ProbeInputs ==
  LET Hosts == {"generativelanguage.googleapis.com", "ai.google.dev", "api.openai.com"}
      Paths == { <<>>, <<"/openai">>, <<"/v1", "/openai">>, <<"/v1beta", "/openai">> }
      ModelNames == { <<"gemini-2.0-flash">>, <<"models/", "gemini-2.0-flash">> }
  IN { [baseUrl |-> <<h>> \o path, modelName |-> m] :
         h \in Hosts, path \in Paths, m \in ModelNames }

InitProbe ==
  /\ ModelUnused
  /\ boxInput = NoBox
  /\ boxOutput = NoPoint
  /\ probeInput \in ProbeInputs
  /\ attempts = <<>>
  /\ probeOutcome = "none"
  /\ hasScreenRecordingPermission = FALSE
  /\ hasAccessibilityPermission = FALSE
  /\ permissionCall = NoPermissionCall
  /\ urlCall = NoUrlCall

\* the route is called: the first completion is attempted
CheckModelAvailability ==
  /\ probeOutcome = "none"
  /\ attempts' = NextAttempt(probeInput, 0)
  /\ probeOutcome' = "running"
  /\ UNCHANGED <<fmtVars, configVars, engineVars, boxInput, boxOutput, probeInput,
                 hasScreenRecordingPermission, hasAccessibilityPermission, permissionCall,
                 urlCall>>

\* tryCompletion returned true: the route returns it
AttemptSucceeded ==
  /\ probeOutcome = "running"
  /\ attempts' = [attempts EXCEPT ![Len(attempts)].status = "ok"]
  /\ probeOutcome' = "true"
  /\ UNCHANGED <<fmtVars, configVars, engineVars, boxInput, boxOutput, probeInput,
                 hasScreenRecordingPermission, hasAccessibilityPermission, permissionCall,
                 urlCall>>

\* tryCompletion returned null: the next combination, or the error after the last
AttemptFailed ==
  /\ probeOutcome = "running"
  /\ LET failed == [attempts EXCEPT ![Len(attempts)].status = "failed"]
         next == NextAttempt(probeInput, Len(attempts))
     IN /\ attempts' = failed \o next
        /\ probeOutcome' = IF next = <<>> THEN "All connection attempts failed"
                           ELSE "running"
  /\ UNCHANGED <<fmtVars, configVars, engineVars, boxInput, boxOutput, probeInput,
                 hasScreenRecordingPermission, hasAccessibilityPermission, permissionCall,
                 urlCall>>

NextProbe == CheckModelAvailability \/ AttemptSucceeded \/ AttemptFailed

SpecProbe == InitProbe /\ [][NextProbe]_vars

\* ------------------------------------------------------ ensurePermissions

MaxPermissionCalls == 5

\* what getAuthStatus of node-mac-permissions returns
AuthStatuses == {"not determined", "restricted", "denied", "authorized"}

\* the permission flag after askForAccessibility / askForScreenRecording saw status
AfterAsking(flag, status) ==
  IF status = "authorized" THEN TRUE
  ELSE IF status = "not determined" \/ status = "denied" THEN FALSE
       ELSE flag

InitPermissions ==
  /\ ModelUnused
  /\ AppUnused

\* ensurePermissions on macOS, both native modules loaded
EnsurePermissions ==
  /\ permissionCall.calls < MaxPermissionCalls
  /\ \E isE2eTest \in BOOLEAN, hasScreenCapturePermission \in BOOLEAN,
        accessibilityStatus \in AuthStatuses, screenStatus \in AuthStatuses :
       IF isE2eTest
       THEN /\ permissionCall' =
                 [called |-> TRUE, calls |-> permissionCall.calls + 1,
                  isE2eTest |-> TRUE, consulted |-> FALSE,
                  accessibilityStatus |-> "", screenStatus |-> "",
                  screenCapture |-> TRUE, accessibility |-> TRUE]
            /\ UNCHANGED <<hasScreenRecordingPermission, hasAccessibilityPermission>>
       ELSE /\ hasAccessibilityPermission' =
                 AfterAsking(hasAccessibilityPermission, accessibilityStatus)
            /\ hasScreenRecordingPermission' =
                 AfterAsking(hasScreenCapturePermission, screenStatus)
            /\ permissionCall' =
                 [called |-> TRUE, calls |-> permissionCall.calls + 1,
                  isE2eTest |-> FALSE, consulted |-> TRUE,
                  accessibilityStatus |-> accessibilityStatus,
                  screenStatus |-> screenStatus,
                  screenCapture |-> hasScreenRecordingPermission',
                  accessibility |-> hasAccessibilityPermission']
  /\ UNCHANGED <<fmtVars, configVars, engineVars, boxInput, boxOutput, probeInput,
                 attempts, probeOutcome, urlCall>>

NextPermissions == EnsurePermissions

SpecPermissions == InitPermissions /\ [][NextPermissions]_vars

\* --------------------------------------------- normalizeGeminiOpenAIBaseUrl

\* what a user may paste: a URL, bare, wrapped in backticks or padded with spaces,
\* a host without scheme, and text that is no URL
BaseUrls ==
  LET UrlHosts == {"generativelanguage.googleapis.com", "ai.google.dev"}
      UrlPaths ==
        { <<>>, <<"/">>, <<"/", "/">>, <<"/openai">>, <<"/openai", "/">>, <<"/v1">>,
          <<"/v1", "/openai">>, <<"/v1beta">>, <<"/v1beta", "/openai">>,
          <<"/v1beta", "/openai", "/", "/">> }
      urls == { <<"https://", h>> \o path : h \in UrlHosts, path \in UrlPaths }
  IN urls \cup { <<Backtick>> \o u \o <<Backtick>> : u \in urls }
          \cup { <<" ">> \o u \o <<" ">> : u \in urls }
          \cup { <<>>, <<"not a url">>, <<"generativelanguage.googleapis.com">>,
                 <<"generativelanguage.googleapis.com", "/v1beta", "/openai">> }

InitUrl ==
  /\ ModelUnused
  /\ boxInput = NoBox
  /\ boxOutput = NoPoint
  /\ probeInput = NoProbe
  /\ attempts = <<>>
  /\ probeOutcome = "none"
  /\ hasScreenRecordingPermission = FALSE
  /\ hasAccessibilityPermission = FALSE
  /\ permissionCall = NoPermissionCall
  /\ urlCall \in { [NoUrlCall EXCEPT !.baseUrl = u] : u \in BaseUrls }

NormalizeBaseUrl ==
  /\ ~urlCall.called
  /\ urlCall' = [urlCall EXCEPT !.called = TRUE,
                                !.normalized = normalizeGeminiOpenAIBaseUrl(urlCall.baseUrl)]
  /\ UNCHANGED <<fmtVars, configVars, engineVars, boxInput, boxOutput, probeInput,
                 attempts, probeOutcome, hasScreenRecordingPermission,
                 hasAccessibilityPermission, permissionCall>>

NextUrl == NormalizeBaseUrl

SpecUrl == InitUrl /\ [][NextUrl]_vars

\* ------------------------------------------------------------------ claims

Alternating(ms) == \A i \in 1..(Len(ms) - 1) : ms[i].role # ms[i + 1].role

Repaired == stage \in {"repaired", "rawRepaired", "repairedTwice", "rawRepairedTwice"}

\* the identifier the upstream returned in turn t of the session
IdOfTurn(t) == (CHOOSE c \in {created[i] : i \in 1..Len(created)} : c.turn = t).id

Occurrences(seq, x) == Cardinality({i \in 1..Len(seq) : seq[i] = x})

\* every invoke so far was the only one of its turn, and reset() was not called
OneInvokePerTurn == ~resetSeen /\ ~repeated

\* the third invoke of a session with at most one retained image has returned
ThirdTurnDone ==
  /\ useResponsesApi
  /\ maxImageLength = 1
  /\ OneInvokePerTurn
  /\ turn = 3
  /\ invokes = 3
  /\ pc = "idle"
  /\ outcome.status = "returned"

\* C1: after the third invoke of the scenario (images A, B, C, one retained image)
\* exactly one deletion was requested for the identifier of image A's turn, and the
\* Head Image Context lists one identifier only, that of B's or of C's submission.
C1_ThreeTurnScenario ==
  ThirdTurnDone =>
    /\ Occurrences(deletions, IdOfTurn(1)) = 1
    /\ Len(headImageContext.responseIds) = 1
    /\ headImageContext.responseIds[1] \in {IdOfTurn(2), IdOfTurn(3)}

\* what the engine does in the scenario of C1: the only deletion is that of A's
\* identifier, and the identifiers of B's and of C's turn both stay listed
ThreeTurnScenarioObserved ==
  ThirdTurnDone =>
    /\ deletions = <<IdOfTurn(1)>>
    /\ headImageContext.responseIds = <<IdOfTurn(2), IdOfTurn(3)>>

\* C2: the number of response identifiers the Head Image Context holds stays
\* within a bound fixed by the image window, whatever the number of turns.
C2_HeadContextBounded ==
  OneInvokePerTurn => Len(headImageContext.responseIds) <= maxImageLength + 1

\* what the code does with one retained image: the list grows by one each turn
HeadContextGrowthObserved ==
  (useResponsesApi /\ maxImageLength = 1 /\ OneInvokePerTurn /\ turn >= 2
     /\ invokes = turn /\ pc = "idle" /\ outcome.status = "returned")
  => Len(headImageContext.responseIds) = turn - 1

\* C3: every repaired message list has no two adjacent messages of one role,
\* starts with a user message and ends with a user message.
C3_RepairAlternates ==
  Repaired =>
    /\ messages # <<>>
    /\ Alternating(messages)
    /\ messages[1].role = "user"
    /\ messages[Len(messages)].role = "user"

\* a conversation that starts with an assistant turn was repaired into at least
\* three messages
C3_Witness ==
  /\ stage = "repaired"
  /\ Len(conversations) >= 2
  /\ conversations[1].from = "gpt"
  /\ conversations[2].value = <<" ">>
  /\ Len(messages) >= 3

\* C4: repairing the output of convertToOpenAIMessages twice gives the same
\* message list, roles and contents, as repairing it once.
C4_RepairIdempotent == stage = "repairedTwice" => messages = firstRepair

\* a formatted list the first repair had to close with a user message went
\* through the repair twice
C4_Witness ==
  /\ stage = "repairedTwice"
  /\ Len(messages) >= 3
  /\ messages[Len(messages)] = StrMsg("user", <<"Please provide the next action.">>)

\* the turns whose value is the placeholder and nothing else, in order
PlaceholderTurns(convs) == {i \in 1..Len(convs) : convs[i].value = <<IMAGE_PLACEHOLDER>>}

\* the turns of convs at the positions in keep, in their order
Restricted(convs, keep) ==
  [k \in 1..Cardinality(keep) |->
     convs[CHOOSE i \in keep : Cardinality({j \in keep : j <= i}) = k]]

\* the oldest n placeholder turns
OldestPlaceholders(convs, n) ==
  {i \in PlaceholderTurns(convs) :
     Cardinality({j \in PlaceholderTurns(convs) : j <= i}) <= n}

OverBudget ==
  /\ stage = "trimmed"
  /\ Len(images) = Cardinality(PlaceholderTurns(conversations))
  /\ maxImageLength < Len(images)

\* C5: with N placeholder turns (one image each) and a maximum of M < N images,
\* processVlmParams keeps the M most recent images in order, removes the N-M
\* oldest placeholder turns and keeps every other turn, in order.
C5_ImageBudget ==
  OverBudget =>
    LET N == Len(images)
        M == maxImageLength
    IN /\ trimmed.images = SubSeq(images, N - M + 1, N)
       /\ Len(trimmed.conversations) = Len(conversations) - (N - M)
       /\ trimmed.conversations =
            Restricted(conversations,
                       (1..Len(conversations)) \ OldestPlaceholders(conversations, N - M))

\* three placeholder turns with other turns between them, budget of one image
C5_Witness ==
  /\ OverBudget
  /\ Len(images) = 3
  /\ maxImageLength = 1
  /\ conversations[1].value # <<IMAGE_PLACEHOLDER>>
  /\ conversations[Len(conversations)].value = <<IMAGE_PLACEHOLDER>>
  /\ Len(trimmed.conversations) = 2

IsCreate(r) == r.kind = "create"

Creates == SelectSeq(requests, IsCreate)

\* the position of the first message after the last assistant message
FirstInput ==
  1 + (CHOOSE i \in 0..Len(messages) :
         /\ i > 0 => messages[i].role = "assistant"
         /\ \A j \in (i + 1)..Len(messages) : messages[j].role # "assistant")

\* the input is the message, its image parts in the form the Responses API takes
SameMessage(input, msg) ==
  /\ input.role = msg.role
  /\ input.isArray = msg.isArray
  /\ input.text = msg.text
  /\ Len(input.parts) = Len(msg.parts)
  /\ \A j \in 1..Len(msg.parts) :
       /\ input.parts[j].text = msg.parts[j].text
       /\ input.parts[j].url = msg.parts[j].url
       /\ input.parts[j].type =
            IF msg.parts[j].type = "image_url" THEN "input_image" ELSE msg.parts[j].type

\* C6: a stateful call sends one create per message after the last assistant
\* message, in order, each only when the one before it was answered; the first
\* carries the caller's previousResponseId, each later one the identifier the one
\* before it returned, and the responseId returned is that of the last create.
C6_IncrementalChain ==
  useResponsesApi =>
    /\ \A k \in 1..Len(Creates) :
         /\ FirstInput + k - 1 <= Len(messages)
         /\ Len(Creates[k].input) = 1
         /\ SameMessage(Creates[k].input[1], messages[FirstInput + k - 1])
         /\ Creates[k].previous =
              IF k = 1 THEN call.previousResponseId ELSE Creates[k - 1].id
         /\ k < Len(Creates) => Creates[k].status = "ok" /\ Creates[k].id # NoId
    /\ result.returned =>
         /\ Len(Creates) = Len(messages) - FirstInput + 1
         /\ Len(Creates) > 0 => result.responseId = Creates[Len(Creates)].id

\* a call with two inputs after an assistant message, chained to an earlier
\* response, has returned
C6_Witness ==
  /\ useResponsesApi
  /\ result.returned
  /\ Len(Creates) = 2
  /\ Len(messages) = 3
  /\ call.previousResponseId # NoId
  /\ Creates[2].previous # call.previousResponseId

LastRequestOk == requests # <<>> /\ requests[Len(requests)].status = "ok"

\* C7: when the upstream answers without prediction text, invoke throws the
\* error named 'vlm response error', the action parser is not called and the
\* caller receives no parsed actions.
C7_EmptyPrediction ==
  (call.entry = "invoke" /\ result.returned /\ result.prediction = <<>>) =>
    /\ outcome.status = "threw"
    /\ outcome.error = "vlm response error"
    /\ outcome.error # Thrown.error
    /\ ~outcome.parserCalled
    /\ outcome.parsedPredictions = <<>>

C7_Witness ==
  /\ call.entry = "invoke"
  /\ result.returned
  /\ result.prediction = <<>>
  /\ LastRequestOk
  /\ requests[Len(requests)].kind = "create"

\* C8: when the action parser throws on a non-empty prediction, invoke returns
\* the prediction unchanged, no parsed actions and the provider's responseId.
C8_ParserThrows ==
  outcome.parserThrew =>
    /\ result.returned
    /\ result.prediction # <<>>
    /\ outcome.status = "returned"
    /\ outcome.prediction = result.prediction
    /\ outcome.parsedPredictions = <<>>
    /\ outcome.responseId = result.responseId

C8_Witness == outcome.parserThrew /\ outcome.responseId # NoId /\ LastRequestOk

\* C9: a failed outbound call is the last call of its invoke, the invoke ends
\* with that error, and no call of an invoke is sent twice.
C9_NoRetry ==
  /\ \A i \in 1..Len(requests) :
       requests[i].status = "failed" =>
         /\ i = Len(requests)
         /\ pc = "idle"
         /\ outcome = Thrown
         /\ ~result.returned
  /\ Len(Creates) <= Len(call.inputs)
  /\ Len(requests) - Len(Creates) <= 1

\* the create that followed a deletion failed
C9_Witness ==
  /\ Len(requests) = 2
  /\ requests[1].kind = "delete"
  /\ requests[2].status = "failed"

NoDeleteRequest == \A i \in 1..Len(requests) : requests[i].kind # "delete"

\* C10: after reset() the Head Image Context is empty, and the stateful invoke
\* that follows it requests no deletion.
C10_Reset ==
  resetSeen =>
    /\ invokesSinceReset = 0 => headImageContext = NoContext
    /\ (invokesSinceReset = 1 /\ useResponsesApi) => NoDeleteRequest

\* the context held an identifier of the first turn, reset() was called, and
\* the invoke of the second turn has returned
C10_Witness ==
  /\ resetSeen
  /\ invokesSinceReset = 1
  /\ useResponsesApi
  /\ turn = 2
  /\ invokes = 2
  /\ Len(created) = 2
  /\ result.returned

\* the requests that ask the model for a prediction
IsInference(r) == r.kind \in {"create", "chat"}

\* C11: every outbound request of invokeModelProvider carries exactly one
\* credential style, the x-goog-api-key header or the bearer Authorization
\* header, never both.
C11_OneCredentialStyle ==
  \A i \in 1..Len(requests) :
    /\ Cardinality(requests[i].headers) = 1
    /\ requests[i].headers \subseteq {"Authorization", "x-goog-api-key"}

\* what the engine sends: the bearer token always, and the x-goog-api-key header
\* with it for a Gemini target with an apiKey
CredentialsObserved ==
  \A i \in 1..Len(requests) :
    /\ "Authorization" \in requests[i].headers
    /\ "x-goog-api-key" \in requests[i].headers <=> (isGemini /\ apiKey)

\* what C12 says of one inference request
SamplingAsClaimed(r) ==
  /\ isGemini =>
       /\ r.temperature = <<>>
       /\ r.top_p = <<>>
       /\ r.max_tokens # <<>> => r.max_tokens[1] > 0
  /\ (~isGemini /\ r.kind = "chat") =>
       /\ r.temperature = (IF temperature = <<>> THEN <<"0">> ELSE temperature)
       /\ r.top_p = (IF top_p = <<>> THEN <<"0.7">> ELSE top_p)

\* C12: for a Gemini target every inference request, under either protocol,
\* omits temperature and top_p and carries a max-tokens field only when it is
\* greater than zero; for another target the Chat Completions request carries
\* temperature (default 0) and top_p (default 0.7).
C12_GeminiOmitsSampling ==
  \A i \in 1..Len(requests) : IsInference(requests[i]) => SamplingAsClaimed(requests[i])

\* the Chat Completions requests are as C12 says
ChatSamplingObserved ==
  \A i \in 1..Len(requests) : requests[i].kind = "chat" => SamplingAsClaimed(requests[i])

\* the ceiling C13 describes: the caller's value, else the default of the model
\* family, lowered to the Gemini limit for a Gemini target
ClaimedCeiling ==
  LET wanted == IF max_tokens # <<>> THEN max_tokens[1]
                ELSE IF uiTarsVersion = "V1_5" THEN DefaultMaxTokensV15
                     ELSE DefaultMaxTokens
  IN IF isGemini /\ GeminiMaxTokens < wanted THEN GeminiMaxTokens ELSE wanted

CeilingAsClaimed(r) ==
  /\ ClaimedCeiling > 0 => r.max_tokens = <<ClaimedCeiling>>
  /\ (r.max_tokens # <<>> /\ max_tokens # <<>>) => r.max_tokens[1] <= max_tokens[1]

\* C13: the output-token ceiling sent upstream is the caller's max_tokens when
\* given, else 65535 for V1_5 and 1000 for the other families, at most 8192 for
\* a Gemini target, and never more than the caller's explicit max_tokens.
C13_TokenCeiling ==
  \A i \in 1..Len(requests) : IsInference(requests[i]) => CeilingAsClaimed(requests[i])

\* the Chat Completions requests carry the ceiling C13 describes
ChatCeilingObserved ==
  \A i \in 1..Len(requests) : requests[i].kind = "chat" => CeilingAsClaimed(requests[i])

\* C14: every outbound call of an invoke, each chat create, each Responses
\* create and each Responses delete, is issued with the caller's signal.
C14_SignalOnEveryCall == \A i \in 1..Len(requests) : requests[i].signal

\* the creates carry the signal, the deletes do not
SignalObserved ==
  \A i \in 1..Len(requests) : requests[i].signal <=> IsInference(requests[i])

\* the combinations of version path, header style and model-name prefix
Combinations ==
  {"/v1beta", "/v1"} \X {{"x-goog-api-key", "Authorization"}, {"Authorization"}}
                     \X {<<>>, <<"models/">>}

CombinationOf(a) == <<a.version, a.headers, a.prefix>>

Attempted == {CombinationOf(attempts[i]) : i \in 1..Len(attempts)}

AllFailed == \A i \in 1..Len(attempts) : attempts[i].status = "failed"

C16_UserConfigFirst ==
  attempts # <<>> =>
    /\ attempts[1].baseURL = probeInput.baseUrl
    /\ attempts[1].model = probeInput.modelName
    /\ \A i \in 1..Len(attempts) :
         [attempts[i] EXCEPT !.status = "pending"] = NextAttempt(probeInput, i - 1)[1]

\* what the route does: for a Gemini base URL the first attempt is the /v1beta
\* variant with the custom header and the model name without its prefix
FirstAttemptObserved ==
  (attempts # <<>> /\ isGeminiBaseUrl(probeInput.baseUrl)) =>
    /\ Includes(attempts[1].baseURL, "/v1") => Includes(probeInput.baseUrl, "/v1beta")
    /\ "x-goog-api-key" \in attempts[1].headers
    /\ attempts[1].model = <<"gemini-2.0-flash">>

IsNum(c) == c.ch = "num"

\* the numbers written in the box string, in order
Written == SelectSeq(boxInput.boxStr, IsNum)

\* the sum of the two coordinates of one axis, as numerator and denominator:
\* coordinates i and i + 2 of a box of four, coordinate i twice of a box of two
AxisSum(i) ==
  LET a == Written[i].value
      b == IF Len(Written) = 4 THEN Written[i + 2].value ELSE a
  IN <<a[1] * b[2] + b[1] * a[2], a[2] * b[2]>>

\* q is the midpoint of axis i scaled by screen and factor, divided by factor
ExactlyScaled(q, i, screen, factor) ==
  /\ q[2] = factor
  /\ 2 * AxisSum(i)[2] * q[1] = AxisSum(i)[1] * screen * factor

\* q is n / factor for the integer n nearest to midpoint * screen * factor,
\* the upper one of two nearest
RoundedScaled(q, i, screen, factor) ==
  /\ q[2] = factor
  /\ 2 * AxisSum(i)[2] * (2 * q[1] - 1) <= 2 * AxisSum(i)[1] * screen * factor
  /\ 2 * AxisSum(i)[1] * screen * factor < 2 * AxisSum(i)[2] * (2 * q[1] + 1)

\* C17: for [x1,y1,x2,y2] and [x,y] parseBoxToScreenCoords returns the midpoint
\* scaled by the screen width and height and divided by the per-axis factors,
\* unclamped; for an empty box string it returns (null, null).
C17_BoxMidpoint ==
  boxOutput.returned =>
    IF boxInput.boxStr = <<>> THEN boxOutput.isNull
    ELSE /\ ~boxOutput.isNull
         /\ ExactlyScaled(boxOutput.x, 1, boxInput.screenWidth, boxInput.factors[1])
         /\ ExactlyScaled(boxOutput.y, 2, boxInput.screenHeight, boxInput.factors[2])

\* C17 as amended: each returned coordinate is n / factor, n being the midpoint
\* times the screen dimension times the factor rounded to the nearest integer;
\* unclamped; (null, null) for an empty box string.
C17_BoxMidpointRounded ==
  boxOutput.returned =>
    IF boxInput.boxStr = <<>> THEN boxOutput.isNull
    ELSE /\ ~boxOutput.isNull
         /\ RoundedScaled(boxOutput.x, 1, boxInput.screenWidth, boxInput.factors[1])
         /\ RoundedScaled(boxOutput.y, 2, boxInput.screenHeight, boxInput.factors[2])

\* "[0.1,0.1,0.1,0.1]" on a 1000x800 screen with factors [1,1] gave (100, 80)
C17_Witness ==
  /\ boxOutput.returned
  /\ Len(Written) = 4
  /\ \A i \in 1..4 : Written[i].value = <<1, 10>>
  /\ boxInput.screenWidth = 1000
  /\ boxInput.screenHeight = 800
  /\ boxInput.factors = <<1, 1>>
  /\ boxOutput.x = <<100, 1>>
  /\ boxOutput.y = <<80, 1>>

\* C18: in the E2E test environment ensurePermissions returns true for both
\* flags without consulting a permission API; otherwise, after any sequence of
\* calls, each returned flag is true exactly when the status queried for it in
\* this call is 'authorized'.
C18_PermissionFlags ==
  permissionCall.called =>
    IF permissionCall.isE2eTest
    THEN /\ permissionCall.screenCapture
         /\ permissionCall.accessibility
         /\ ~permissionCall.consulted
    ELSE /\ permissionCall.accessibility <=>
              permissionCall.accessibilityStatus = "authorized"
         /\ permissionCall.screenCapture <=> permissionCall.screenStatus = "authorized"

Handled == {"not determined", "denied", "authorized"}

\* each flag is as C18 says when its status is one the code has a branch for
HandledStatusesObserved ==
  (permissionCall.called /\ ~permissionCall.isE2eTest) =>
    /\ permissionCall.accessibilityStatus \in Handled =>
         (permissionCall.accessibility <=>
            permissionCall.accessibilityStatus = "authorized")
    /\ permissionCall.screenStatus \in Handled =>
         (permissionCall.screenCapture <=> permissionCall.screenStatus = "authorized")

\* an invoke begins in this step
InvokeBegins == invokes' # invokes

\* the step issues a deletion request
DeletionIssued ==
  /\ deletions' # deletions
  /\ Len(requests') > 0
  /\ requests'[Len(requests')].kind = "delete"

\* C19: a stateful invoke deletes upstream exactly when the Head Image Context
\* holds an identifier and the index of the first image message of the current
\* message list differs from the recorded one; then the oldest identifier leaves
\* the list and its deletion is the first request of the invoke, before every
\* create; otherwise, and at every other step, no deletion is issued.
C19_EvictionOnSlide ==
  [][ IF InvokeBegins /\ useResponsesApi
      THEN IF /\ headImageContext.responseIds # <<>>
              /\ headImageContext.messageIndex # HeadImageMessageIndex(messages')
           THEN /\ headImageContext'.responseIds = Tail(headImageContext.responseIds)
                /\ headImageContext'.messageIndex = headImageContext.messageIndex
                /\ deletions' = Append(deletions, Head(headImageContext.responseIds))
                /\ Len(requests') = 1
                /\ requests'[1].kind = "delete"
                /\ requests'[1].target = Head(headImageContext.responseIds)
           ELSE /\ ~DeletionIssued
                /\ deletions' = deletions
                /\ headImageContext' = headImageContext
                /\ \A i \in 1..Len(requests') : requests'[i].kind # "delete"
      ELSE /\ deletions' = deletions
           /\ \A i \in 1..Len(requests') : requests'[i].kind = "delete" => i = 1
    ]_vars

\* of two recorded identifiers the older one was deleted, the newer one is
\* still first in the list, and the create of that invoke followed the deletion
C19_Witness ==
  /\ useResponsesApi
  /\ Len(deletions) = 1
  /\ Len(requests) >= 2
  /\ requests[1].kind = "delete"
  /\ requests[1].status = "ok"
  /\ requests[2].kind = "create"
  /\ headImageContext.responseIds # <<>>
  /\ Head(headImageContext.responseIds) = deletions[1] + 1

\* openai.responses.create resolves in this step
CreateSucceeds == pc = "create" /\ nextId' # nextId

\* C20: after a successful create of an input that carries an image the returned
\* identifier is the last of the Head Image Context's list, the identifiers
\* before it are kept, and the recorded position is the index of the first image
\* message of the current message list; a successful create of an input without
\* an image leaves the Head Image Context as it was.
C20_AppendOnImage ==
  [][ CreateSucceeds =>
        LET sent == requests[Len(requests)]
            answered == requests'[Len(requests)]
        IN /\ answered.status = "ok"
           /\ answered.id # NoId
           /\ IF isMessageImage(sent.input[1])
              THEN /\ ~headImageContext'.isNull
                   /\ headImageContext'.responseIds =
                        Append(headImageContext.responseIds, answered.id)
                   /\ headImageContext'.messageIndex = HeadImageMessageIndex(messages)
              ELSE headImageContext' = headImageContext
    ]_vars

\* one invoke recorded two identifiers, and a create of an input without an
\* image was answered after them
C20_Witness ==
  /\ useResponsesApi
  /\ Len(headImageContext.responseIds) = 2
  /\ headImageContext.messageIndex = 0
  /\ LastRequestOk
  /\ Len(requests) = 3
  /\ requests[3].kind = "create"
  /\ ~isMessageImage(requests[3].input[1])
  /\ requests[2].id = headImageContext.responseIds[2]

\* the formatter has turned the conversation into the message list
Formatted == stage = "formatted"

RoleOf(conv) == IF conv.from = "human" THEN "user" ELSE "assistant"

\* the number of runs of consecutive turns of one role
RoleRuns(convs) ==
  Cardinality({i \in 1..Len(convs) : i = 1 \/ RoleOf(convs[i]) # RoleOf(convs[i - 1])})

\* C21: for every non-empty conversation the formatter's first message has role
\* user (the synthetic 'Starting interaction.' message when the conversation
\* starts with an assistant turn), no two adjacent messages share a role, and
\* each run of same-role turns has become one message.
C21_RoleCoercion ==
  (Formatted /\ conversations # <<>>) =>
    /\ messages # <<>>
    /\ messages[1].role = "user"
    /\ RoleOf(conversations[1]) = "assistant" =>
         /\ messages[1] = StrMsg("user", StartingInteraction)
         /\ Len(messages) = RoleRuns(conversations) + 1
    /\ RoleOf(conversations[1]) = "user" => Len(messages) = RoleRuns(conversations)
    /\ \A i \in 1..(Len(messages) - 1) : messages[i].role # messages[i + 1].role

\* two assistant turns and a user turn became the synthetic user message, one
\* assistant message and one user message
C21_Witness ==
  /\ Formatted
  /\ Len(conversations) = 3
  /\ conversations[1].from = "gpt"
  /\ conversations[2].from = "gpt"
  /\ conversations[3].from = "human"
  /\ Len(messages) = 3
  /\ messages[2].role = "assistant"

\* the images the formatter may have been handed: all of them, or the last one
ImagesHanded == {images, LastImage(images)}

CharToken(c) == [t |-> "char", v |-> c]

ImageToken(image) == [t |-> "image", v |-> image]

StandIns == {CharToken(AnalyzingScreen[1]), CharToken(ImageOmitted[1])}

\* the parts of a content array laid out as one sequence of tokens
RECURSIVE Flatten(_)
Flatten(ps) ==
  IF ps = <<>> THEN <<>>
  ELSE (IF IsTextPart(Head(ps))
        THEN [j \in 1..Len(Head(ps).text) |-> CharToken(Head(ps).text[j])]
        ELSE <<ImageToken(Head(ps).url[2])>>) \o Flatten(Tail(ps))

\* the number of placeholders among the first n characters of value
PlaceholdersUpTo(value, n) ==
  Cardinality({j \in 1..n : value[j] = IMAGE_PLACEHOLDER})

\* the image the k-th placeholder of the conversation is to receive
Assigned(imgs, k, total) ==
  IF Len(imgs) = 1 THEN (IF k = total THEN <<imgs[1]>> ELSE <<>>)
  ELSE (IF k <= Len(imgs) THEN <<imgs[k]>> ELSE <<>>)

\* the non-empty pieces of text between the placeholders of value
TextRuns(value) ==
  Cardinality({j \in 1..Len(value) :
                 /\ value[j] # IMAGE_PLACEHOLDER
                 /\ j = 1 \/ value[j - 1] = IMAGE_PLACEHOLDER})

\* the parts of turn i: one per text run and one per placeholder, in place, the
\* k-th placeholder of the conversation as its assigned image or as a stand-in
SubstitutedInPlace(convs, imgs, i) ==
  LET value == convs[i].value
      before == TotalPlaceholders(SubSeq(convs, 1, i - 1))
      total == TotalPlaceholders(convs)
      parts == ContentParts(Split(value), 0, i - 1, before, total, imgs)
      tokens == Flatten(parts)
  IN /\ Len(parts) = TextRuns(value) + CountPlaceholders(value)
     /\ Len(tokens) = Len(value)
     /\ \A j \in 1..Len(value) :
          IF value[j] # IMAGE_PLACEHOLDER THEN tokens[j] = CharToken(value[j])
          ELSE LET image == Assigned(imgs, before + PlaceholdersUpTo(value, j), total)
               IN IF image # <<>> THEN tokens[j] = ImageToken(image[1])
                  ELSE tokens[j] \in StandIns

RECURSIVE ImagesOf(_)
ImagesOf(ps) ==
  IF ps = <<>> THEN <<>>
  ELSE (IF IsImagePart(Head(ps)) THEN <<Head(ps).url[2]>> ELSE <<>>) \o ImagesOf(Tail(ps))

\* the images of a message list, in message and part order
RECURSIVE ImagesSent(_)
ImagesSent(ms) ==
  IF ms = <<>> THEN <<>>
  ELSE (IF Head(ms).isArray THEN ImagesOf(Head(ms).parts) ELSE <<>>) \o ImagesSent(Tail(ms))

\* the images the placeholders of the conversation are to receive, in order
ImagesDue(imgs, total) ==
  IF Len(imgs) = 1 THEN (IF total > 0 THEN imgs ELSE <<>>)
  ELSE SubSeq(imgs, 1, IF total < Len(imgs) THEN total ELSE Len(imgs))

\* C22: every placeholder produces exactly one part at its position; the k-th
\* placeholder receives the k-th image; with exactly one image only the last
\* placeholder receives it and every earlier one a text stand-in; the message
\* list carries each assigned image once, in placeholder order.
C22_PlaceholderSubstitution ==
  Formatted =>
    /\ \A imgs \in ImagesHanded : \A i \in 1..Len(conversations) :
         SubstitutedInPlace(conversations, imgs, i)
    /\ \E imgs \in ImagesHanded :
         ImagesSent(messages) = ImagesDue(imgs, TotalPlaceholders(conversations))

\* a conversation with three placeholders was formatted with a single image:
\* the message list carries that image once
C22_Witness ==
  /\ Formatted
  /\ Len(images) = 2
  /\ TotalPlaceholders(conversations) = 3
  /\ ImagesSent(messages) = <<images[2]>>

\* C23: in every message of the formatter the content is a bare string or an
\* array that is not a single text part, also after a same-role merge, and no
\* content array holds two adjacent text parts.
C23_ContentNormalized ==
  Formatted =>
    \A i \in 1..Len(messages) :
      messages[i].isArray =>
        /\ ~(Len(messages[i].parts) = 1 /\ IsTextPart(messages[i].parts[1]))
        /\ \A j \in 1..(Len(messages[i].parts) - 1) :
             ~(IsTextPart(messages[i].parts[j]) /\ IsTextPart(messages[i].parts[j + 1]))

\* two text-only user turns were merged into one message with a bare string
C23_Witness ==
  /\ Formatted
  /\ Len(conversations) = 2
  /\ conversations[1] = [from |-> "human", value |-> <<"a">>]
  /\ conversations[2] = [from |-> "human", value |-> <<"a", "\n">>]
  /\ messages = <<StrMsg("user", <<"a", "\n", "a", "\n">>)>>

HasTextPart(ps) == \E j \in 1..Len(ps) : IsTextPart(ps[j])

\* C24: every message of the formatter that holds an image part holds a text
\* part as well, for every conversation, turns of one or several placeholders
\* included.
C24_TextWithImage ==
  Formatted =>
    \A i \in 1..Len(messages) :
      (messages[i].isArray /\ HasImagePart(messages[i].parts)) =>
        HasTextPart(messages[i].parts)

\* a turn that is exactly one placeholder gets the text put before its image
LoneImageObserved ==
  (Formatted /\ Len(conversations) = 1
     /\ conversations[1].value = <<IMAGE_PLACEHOLDER>>) =>
    \A i \in 1..Len(messages) :
      (messages[i].isArray /\ HasImagePart(messages[i].parts)) =>
        HasTextPart(messages[i].parts)

\* every image string of every log entry is written as its 50-character prefix
Redacted ==
  \A i \in 1..Len(logs) : \A j \in 1..Len(logs[i].images) :
    logs[i].images[j].shape = "slice50"

\* C25: no log entry written during an invoke holds a full base64 image data
\* URL: every embedded image string is cut to its first 50 characters and the
\* truncation marker before it is logged.
C25_LogsRedacted == Redacted

\* for a target that is not Gemini every logged image string is redacted
NonGeminiLogsObserved == ~isGemini => Redacted

\* the request payload entry and the per-input entries are redacted
RedactedEntriesObserved ==
  \A i \in 1..Len(logs) :
    logs[i].label \in {"[UITarsModel] Request Payload", "[ResponseAPI] [input]"} =>
      \A j \in 1..Len(logs[i].images) : logs[i].images[j].shape = "slice50"

\* the pasted text without its padding and its wrapping backticks
Pasted(baseUrl) == Trim(StripBackticks(Trim(baseUrl)))

\* the text does not start with a scheme: new URL(text) throws
Unparseable(baseUrl) == Pasted(baseUrl) = <<>> \/ Pasted(baseUrl)[1] # "https://"

\* a URL whose path names no API version
MissingVersion(baseUrl) ==
  /\ ~Unparseable(baseUrl)
  /\ ~Includes(baseUrl, "/v1")
  /\ ~Includes(baseUrl, "/v1beta")

OneTrailingSlash(url) ==
  /\ url # <<>>
  /\ url[Len(url)] = "/"
  /\ Len(url) > 1 => url[Len(url) - 1] \notin {"/", "https://"}

TrailingSlashAsClaimed == urlCall.called => OneTrailingSlash(urlCall.normalized)

UnparseableAsClaimed ==
  (urlCall.called /\ Unparseable(urlCall.baseUrl)) => urlCall.normalized = DefaultEndpoint

MissingVersionAsClaimed ==
  (urlCall.called /\ MissingVersion(urlCall.baseUrl)) =>
    /\ Len(urlCall.normalized) = 5
    /\ SubSeq(urlCall.normalized, 3, 5) = <<"/v1beta", "/openai", "/">>

\* C26: normalizeGeminiOpenAIBaseUrl returns, for every input, a URL that ends
\* with exactly one slash; an input without a version path gets the default
\* /v1beta/openai/ path, and an input that is no URL gives the default endpoint
\* https://generativelanguage.googleapis.com/v1beta/openai/.
C26_BaseUrlNormalized ==
  /\ TrailingSlashAsClaimed
  /\ UnparseableAsClaimed
  /\ MissingVersionAsClaimed

\* a documentation URL gives the default endpoint, and a URL that ends with
\* /openai gets the v1beta version path and one trailing slash
DocumentedCasesObserved ==
  urlCall.called =>
    /\ Includes(urlCall.baseUrl, "ai.google.dev") => urlCall.normalized = DefaultEndpoint
    /\ (MissingVersion(urlCall.baseUrl) /\ EndsWithOpenai(Pasted(urlCall.baseUrl))) =>
         /\ OneTrailingSlash(urlCall.normalized)
         /\ IncludesVersion(urlCall.normalized, "/v1beta")

\* the name is what the claim calls normalized, for the target of this engine
NameAsClaimed(name) ==
  /\ name # <<>>
  /\ name[1] \notin WhiteSpace
  /\ name[Len(name)] \notin WhiteSpace
  /\ ~(name[1] = Backtick /\ name[Len(name)] = Backtick)
  /\ isGemini => name[1] # "models/"
  /\ NormalizedModel(name, isGemini) = name

\* C27: the model name of every inference request has no whitespace at its
\* ends and no wrapping backticks, for a Gemini target it does not begin with
\* 'models/', and normalizing it once more leaves it unchanged.
C27_ModelNameNormalized ==
  \A i \in 1..Len(requests) :
    IsInference(requests[i]) => NameAsClaimed(requests[i].model)

\* identifiers with at most one pair of backticks and one 'models/' prefix
PlainlyPasted ==
  originalModel \in { <<>>, <<"gemini-2.0-flash">>, <<"models/", "gemini-2.0-flash">>,
              <<" ", "gemini-2.0-flash", "\n">>,
              <<Backtick, "gemini-2.0-flash", Backtick>>,
              <<" ", Backtick, "models/", "gemini-2.0-flash", Backtick, " ">>,
              <<Backtick, " ", "gemini-2.0-flash", " ", Backtick>> }

\* for such an identifier the name sent is as C27 says
PlainlyPastedObserved == PlainlyPasted => C27_ModelNameNormalized

\* the chat request carries at most one image, the last of the message list
\* handed to invokeModelProvider when there is one, and no system message
SingleRecentImage ==
  \A i \in 1..Len(requests) :
    requests[i].kind = "chat" =>
      /\ Len(ImageUrls(requests[i].input)) <= 1
      /\ ImageUrls(messages) # <<>> =>
           ImageUrls(requests[i].input) = <<ImageUrls(messages)[Len(ImageUrls(messages))]>>
      /\ \A j \in 1..Len(requests[i].input) : requests[i].input[j].role # "system"

\* C28: for a Gemini target the Chat Completions request holds at most one
\* image part over all its messages; when the input held an image, that part is
\* the most recent image, the last one in message order; no message of the
\* request has the role system.
C28_GeminiSingleImage == isGemini => SingleRecentImage

\* the requests of invoke, whose formatter hands over one image, are as C28 says
GeminiInvokeObserved == (isGemini /\ call.entry = "invoke") => SingleRecentImage

\* at most one image and no system message, whatever the message list is
GeminiOneImageObserved ==
  isGemini =>
    \A i \in 1..Len(requests) :
      requests[i].kind = "chat" =>
        /\ Len(ImageUrls(requests[i].input)) <= 1
        /\ \A j \in 1..Len(requests[i].input) : requests[i].input[j].role # "system"

Recorded == {headImageContext.responseIds[k] : k \in 1..Len(headImageContext.responseIds)}

\* C29: when the deletion of the oldest identifier fails, the invoke ends with
\* that error and has sent no create; the identifier has left the Head Image
\* Context all the same, and an identifier a deletion was requested for is
\* never in the list again, so no later invoke offers it for deletion.
C29_FailedDeletion ==
  /\ \A i \in 1..Len(requests) :
       (requests[i].kind = "delete" /\ requests[i].status = "failed") =>
         /\ Len(requests) = 1
         /\ pc = "idle"
         /\ outcome = Thrown
         /\ ~result.returned
         /\ requests[i].target \notin Recorded
  /\ \A d \in 1..Len(deletions) :
       /\ deletions[d] \notin Recorded
       /\ \A e \in 1..Len(deletions) : deletions[e] = deletions[d] => e = d

\* the deletion of the older of two recorded identifiers failed: the invoke is
\* over without a create and the newer identifier is still recorded
C29_Witness ==
  /\ Len(requests) = 1
  /\ requests[1].kind = "delete"
  /\ requests[1].status = "failed"
  /\ deletions = <<requests[1].target>>
  /\ headImageContext.responseIds = <<requests[1].target + 1>>

CreatedIds == {created[k].id : k \in 1..Len(created)}

DeleteRequests == {i \in 1..Len(requests) : requests[i].kind = "delete"}

\* what holds of the deletions requested so far
DeletionsSound ==
  /\ \A d \in 1..Len(deletions) :
       /\ deletions[d] \in CreatedIds
       /\ deletions[d] \notin Recorded
       /\ \A e \in 1..Len(deletions) : deletions[e] = deletions[d] => e = d
  /\ Cardinality(DeleteRequests) <= 1
  /\ \A i \in DeleteRequests : requests[i].target = deletions[Len(deletions)]
  /\ Recorded \subseteq CreatedIds

\* a step requests at most one deletion, that of the identifier recorded first
DeletionStep ==
  \/ deletions' = deletions
  \/ /\ headImageContext.responseIds # <<>>
     /\ deletions' = Append(deletions, Head(headImageContext.responseIds))
     /\ Head(headImageContext.responseIds) \in CreatedIds

\* C30: over every sequence of stateful invokes and resets, an identifier a
\* deletion is requested for was returned by a create of this engine and was
\* recorded in the Head Image Context; no identifier is requested for deletion
\* twice; an invoke requests at most one deletion; and no identifier is in the
\* context's list once its deletion was requested.
C30_DeletionsSound == []DeletionsSound /\ [][DeletionStep]_vars

\* after a reset the context filled again and a second identifier was deleted
C30_Witness ==
  /\ useResponsesApi
  /\ resetSeen
  /\ Len(deletions) = 2
  /\ headImageContext.responseIds # <<>>
  /\ result.returned

====
